---- MODULE Spec2Model ----
(***************************************************************************)
(* A model of the go-types value types.                                    *)
(*                                                                         *)
(* Part 1: package date (date.Value, a Julian day number held in an       *)
(* int64), its unit conversions, validation, comparisons and calendar      *)
(* arithmetic.                                                             *)
(*                                                                         *)
(* Machine integers.  Every quantity derived from a valid date stays far   *)
(* below 2^31, so plain integers model it exactly.  The arguments of      *)
(* AddDays, NextWeekday and PreviousWeekday are arbitrary Go ints, and the *)
(* additions made with them are 64-bit two's-complement additions; they    *)
(* are modelled by "wide" values [k, r] standing for k * 2^63 + r (see     *)
(* Wrap64), which is exact for every int64 within 2^30 of 0, of -2^63 or   *)
(* of 2^63 - 1.                                                            *)
(***************************************************************************)
EXTENDS Integers, Sequences, FiniteSets, TLC

----------------------------------------------------------------------------
(* Package-level values of date.                                           *)

Nil == -2

NilUnit == -2

Min == 2361331

Max == 5373484

\* baseDaysInMonth[m + 1] is Go's baseDaysInMonth[m]; index 0 is unused.
baseDaysInMonth == <<0, 31, 28, 31, 30, 31, 30, 31, 31, 30, 31, 30, 31>>

----------------------------------------------------------------------------
(* Bounds of the exploration.                                              *)

\* Years explored are those within YearSpan of an anchor year.
YearSpan == 1

\* AddDays is tried with every n in -MaxDelta..MaxDelta (and with the
\* extreme int64 values).
MaxDelta == 2

\* Number of chained method calls explored after a construction.
MaxSteps == 2

AnchorYears == {1753, 1800, 1900, 1996, 2000, 2024, 2100, 2400, 9999}

FarYears == {-400, 0, 1600, 12000}

ConvYears == FarYears \cup UNION {(a - YearSpan - 1)..(a + YearSpan + 1) : a \in AnchorYears}

ConvMonths == -1..14

ConvDays == -1..33

\* Values a program can hold without any constructor: the zero value of the
\* type, and conversions of arbitrary integers.
Literals == {Nil, -1, 0, 1, Min - 1, Min, Max, Max + 1, 1721119, 2451545}

----------------------------------------------------------------------------
(* Validation.                                                             *)

IsValidYearOff(y) == y >= 1753 /\ y <= 10000

IsValidYear(y) == y >= 1753 /\ y <= 9999

IsValidMonth(m) == m > 0 /\ m < 13

IsLeapYearNoCentury(y) == IsValidYear(y) /\ (y % 4) = 0

IsLeapYear(y) ==
    IsValidYear(y) /\ (((y % 4) = 0 /\ (y % 100) # 0) \/ ((y % 400) = 0))

DaysInMonth(y, m) ==
    IF ~IsValidYear(y) \/ ~IsValidMonth(m) THEN NilUnit
    ELSE LET d == baseDaysInMonth[m + 1]
         IN  IF m = 2 /\ IsLeapYear(y) THEN d + 1 ELSE d

IsValidUnitsDayZero(y, m, d) ==
    IsValidYear(y) /\ IsValidMonth(m) /\ d >= 0 /\ d <= DaysInMonth(y, m)

IsValidUnits(y, m, d) ==
    IsValidYear(y) /\ IsValidMonth(m) /\ d > 0 /\ d <= DaysInMonth(y, m)

IsValid(d) == Min <= d /\ d <= Max

----------------------------------------------------------------------------
(* The conversions.  Operands are non-negative on every call the package   *)
(* makes (FromUnits validates first, ToUnits checks IsValid first), so the *)
(* uint64 shifts are exact divisions and multiplications by four.          *)

gregorianToJulianFlatCentury(y, m, d) ==
    LET m1 == IF m > 2 THEN m - 3 ELSE m + 9
        y1 == IF m > 2 THEN y ELSE y - 1
        c  == y1 \div 100
        yr == y1 - (100 * c)
    IN  (36524 * c) + ((1461 * yr) \div 4)
          + ((153 * m1 + 2) \div 5) + d + 1721119

gregorianToJulian(y, m, d) ==
    LET m1 == IF m > 2 THEN m - 3 ELSE m + 9
        y1 == IF m > 2 THEN y ELSE y - 1
        c  == y1 \div 100
        yr == y1 - (100 * c)
    IN  ((146097 * c) \div 4) + ((1461 * yr) \div 4)
          + ((153 * m1 + 2) \div 5) + d + 1721119

julianToGregorianNoShift(v) ==
    LET jt0 == v - 1721119
        y0  == ((jt0 * 4) - 1) \div 146097
        jt1 == (jt0 * 4) - 1 - (146097 * y0)
        ud0 == jt1 \div 4
        jt2 == ((ud0 * 4) + 3) \div 1461
        ud1 == (ud0 * 4) + 3 - (1461 * jt2)
        ud2 == (ud1 + 4) \div 4
        m0  == ((5 * ud2) - 3) \div 153
        ud3 == (5 * ud2) - 3 - (153 * m0)
        d   == (ud3 + 5) \div 5
        y1  == (100 * y0) + jt2
    IN  IF m0 < 10 THEN <<y1, m0 + 3, d>> ELSE <<y1, m0 - 9, d>>

julianToGregorian(v) ==
    LET jt0 == v - 1721119
        y0  == ((jt0 * 4) - 1) \div 146097
        jt1 == (jt0 * 4) - 1 - (146097 * y0)
        ud0 == jt1 \div 4
        jt2 == ((ud0 * 4) + 3) \div 1461
        ud1 == (ud0 * 4) + 3 - (1461 * jt2)
        ud2 == (ud1 + 4) \div 4
        m0  == ((5 * ud2) - 3) \div 153
        ud3 == (5 * ud2) - 3 - (153 * m0)
        d   == (ud3 + 5) \div 5
        y1  == (100 * y0) + jt2
    IN  IF m0 < 10 THEN <<y1, m0 + 3, d>> ELSE <<y1 + 1, m0 - 9, d>>

\* A result of a fallible operation: the value and the error ("nil" = none).
Ret(v, e) == [v |-> v, err |-> e]

FromUnits(y, m, d) ==
    IF ~IsValidUnits(y, m, d) THEN Ret(Nil, "ErrInvalidDateUnit")
    ELSE Ret(gregorianToJulian(y, m, d), "nil")

ToUnitsZeroForInvalid(d) ==
    IF d = Nil THEN <<NilUnit, NilUnit, NilUnit>>
    ELSE IF ~IsValid(d) THEN <<0, 0, 0>>
    ELSE julianToGregorian(d)

ToUnits(d) ==
    IF d = Nil THEN <<NilUnit, NilUnit, NilUnit>>
    ELSE IF ~IsValid(d) THEN <<-1, -1, -1>>
    ELSE julianToGregorian(d)

Year(dt) == IF dt = Nil THEN NilUnit ELSE ToUnits(dt)[1]

Month(dt) == IF dt = Nil THEN NilUnit ELSE ToUnits(dt)[2]

Day(dt) == IF dt = Nil THEN NilUnit ELSE ToUnits(dt)[3]

----------------------------------------------------------------------------
(* Comparisons.                                                            *)

EqualPlain(v1, v2) == v1 = v2

Equal(v1, v2) ==
    IF v1 = Nil \/ v2 = Nil THEN FALSE ELSE v1 = v2

Equals(v, v2) == Equal(v, v2)

Before(v, v2) ==
    IF v = Nil \/ v2 = Nil THEN FALSE ELSE v < v2

After(v, v2) ==
    IF v = Nil \/ v2 = Nil THEN FALSE ELSE v > v2

----------------------------------------------------------------------------
(* 64-bit integers near 0 and near the ends of the int64 range.            *)
(* [k, r] stands for k * 2^63 + r with |r| < 2^30.  The int64 values are   *)
(* k = 0, k = 1 with r < 0 (2^63 - 1 is [1, -1]) and k = -1 with r >= 0    *)
(* (-2^63 is [-1, 0]).                                                     *)

Wide(k, r) == [k |-> k, r |-> r]

Small(n) == Wide(0, n)

MinInt64 == Wide(-1, 0)

MaxInt64 == Wide(1, -1)

\* Reduction modulo 2^64 into the int64 range: 2 * 2^63 is 0, a value of
\* 2^63 or more loses 2^64, a value below -2^63 gains 2^64.
Wrap64(k, r) ==
    LET k1 == IF k = 2 \/ k = -2 THEN 0 ELSE k
    IN  IF k1 = 1 /\ r >= 0 THEN Wide(-1, r)
        ELSE IF k1 = -1 /\ r < 0 THEN Wide(1, r)
        ELSE Wide(k1, r)

Add64(a, b) == Wrap64(a.k + b.k, a.r + b.r)

Sub64(a, b) == Wrap64(a.k - b.k, a.r - b.r)

Less64(a, b) == a.k < b.k \/ (a.k = b.k /\ a.r < b.r)

----------------------------------------------------------------------------
(* The time package, as far as date uses it.  A time.Time at midnight UTC  *)
(* is its <<year, month, day>>; the zero time.Time is 0001-01-01.          *)

daysBefore == <<0, 31, 59, 90, 120, 151, 181, 212, 243, 273, 304, 334, 365>>

ToTime(v) == IF ~IsValid(v) THEN <<1, 1, 1>> ELSE ToUnits(v)

\* time.Time.Weekday(): the days elapsed since Monday 0001-01-01, modulo 7,
\* with Sunday = 0.
TimeWeekday(t) ==
    LET y    == t[1] - 1
        leap == ((t[1] % 4) = 0 /\ (t[1] % 100) # 0) \/ ((t[1] % 400) = 0)
        abs  == (365 * y) + (y \div 4) - (y \div 100) + (y \div 400)
                  + daysBefore[t[2]] + (IF leap /\ t[2] > 2 THEN 1 ELSE 0)
                  + (t[3] - 1)
    IN  (abs + 1) % 7

Weekday(d) == IF ~IsValid(d) THEN -1 ELSE TimeWeekday(ToTime(d))

----------------------------------------------------------------------------
(* Calendar arithmetic.                                                    *)

AddDaysNoUpperCheck(d, n) ==
    IF ~IsValid(d) THEN Ret(Nil, "nil")
    ELSE LET v == Add64(Small(d), n)
         IN  IF Less64(v, Small(Min))
             THEN Ret(Nil, "ErrOutOfRange")
             ELSE Ret(v.r, "nil")

AddDaysOffByOne(d, n) ==
    IF ~IsValid(d) THEN Ret(Nil, "nil")
    ELSE LET v == Add64(Small(d), n)
         IN  IF ~Less64(Small(Min), v) \/ ~Less64(v, Small(Max))
             THEN Ret(Nil, "ErrOutOfRange")
             ELSE Ret(v.r, "nil")

AddDays(d, n) ==
    IF ~IsValid(d) THEN Ret(Nil, "nil")
    ELSE LET v == Add64(Small(d), n)
         IN  IF Less64(v, Small(Min)) \/ Less64(Small(Max), v)
             THEN Ret(Nil, "ErrOutOfRange")
             ELSE Ret(v.r, "nil")

StartOfYear(d) ==
    IF ~IsValid(d) THEN Nil ELSE FromUnits(ToUnits(d)[1], 1, 1).v

MiddleOfYear(d) ==
    IF ~IsValid(d) THEN Nil ELSE FromUnits(ToUnits(d)[1], 6, 30).v

EndOfYear(d) ==
    IF ~IsValid(d) THEN Nil ELSE FromUnits(ToUnits(d)[1], 12, 31).v

StartOfMonth(d) ==
    IF ~IsValid(d) THEN Nil
    ELSE LET u == ToUnits(d) IN FromUnits(u[1], u[2], 1).v

MiddleOfMonth(d) ==
    IF ~IsValid(d) THEN Nil
    ELSE LET u == ToUnits(d)
         IN  FromUnits(u[1], u[2], DaysInMonth(u[1], u[2]) \div 2).v

EndOfMonthNoLeap(d) ==
    IF ~IsValid(d) THEN Nil
    ELSE LET u == ToUnits(d)
         IN  FromUnits(u[1], u[2], baseDaysInMonth[u[2] + 1]).v

EndOfMonth(d) ==
    IF ~IsValid(d) THEN Nil
    ELSE LET u == ToUnits(d)
         IN  FromUnits(u[1], u[2], DaysInMonth(u[1], u[2])).v

NextMonthSameMonthStays(d, m) ==
    IF ~IsValid(d) THEN Ret(Nil, "nil")
    ELSE LET u  == ToUnits(d)
             yr == IF m < u[2] THEN u[1] + 1 ELSE u[1]
         IN  FromUnits(yr, m, u[3])

NextMonth(d, m) ==
    IF ~IsValid(d) THEN Ret(Nil, "nil")
    ELSE LET u  == ToUnits(d)
             yr == IF m <= u[2] THEN u[1] + 1 ELSE u[1]
         IN  FromUnits(yr, m, u[3])

NextWeekdaySameDayStays(d, wd) ==
    IF ~IsValid(d) THEN Ret(Nil, "nil")
    ELSE LET delta0 == Sub64(wd, Small(Weekday(d)))
             delta  == IF Less64(delta0, Small(0))
                       THEN Add64(delta0, Small(7)) ELSE delta0
         IN  AddDays(d, delta)

NextWeekday(d, wd) ==
    IF ~IsValid(d) THEN Ret(Nil, "nil")
    ELSE LET delta0 == Sub64(wd, Small(Weekday(d)))
             delta  == IF ~Less64(Small(0), delta0)
                       THEN Add64(delta0, Small(7)) ELSE delta0
         IN  AddDays(d, delta)

NextYearValidatesYearFirst(d, yy) ==
    IF ~IsValidYear(yy) THEN Ret(Nil, "ErrInvalidYear")
    ELSE IF ~IsValid(d) THEN Ret(Nil, "nil")
    ELSE LET u == ToUnits(d)
         IN  IF u[1] > yy THEN Ret(Nil, "ErrYearBefore")
             ELSE FromUnits(yy, u[2], u[3])

NextYear(d, yy) ==
    IF ~IsValid(d) THEN Ret(Nil, "nil")
    ELSE IF ~IsValidYear(yy) THEN Ret(Nil, "ErrInvalidYear")
    ELSE LET u == ToUnits(d)
         IN  IF u[1] > yy THEN Ret(Nil, "ErrYearBefore")
             ELSE FromUnits(yy, u[2], u[3])

PreviousWeekday(d, w) ==
    IF ~IsValid(d) THEN Ret(Nil, "nil")
    ELSE LET delta0 == Sub64(w, Small(TimeWeekday(ToTime(d))))
             delta  == IF ~Less64(delta0, Small(0))
                       THEN Sub64(delta0, Small(7)) ELSE delta0
         IN  AddDays(d, delta)

----------------------------------------------------------------------------
(* State.                                                                  *)
(*   op    the last operation performed ("init" before any)                *)
(*   recv  the receiver (or first operand) of the last operation           *)
(*   arg   its arguments, padded to three integers                         *)
(*   cur   the date.Value the program holds: the result of the last        *)
(*         value-returning operation                                       *)
(*   err   the error that operation returned ("nil" = none)                *)
(*   units the triple returned by ToUnits or by Year/Month/Day             *)
(*   num   the integer returned by DaysInMonth                             *)
(*   flag  the boolean returned by IsLeapYear                              *)
(*   cmp   <<Equal, Equals, Before, After>> of the last comparison         *)
(*   steps method calls chained since the value was constructed            *)

VARIABLES op, recv, arg, cur, err, units, num, flag, cmp, steps

vars == <<op, recv, arg, cur, err, units, num, flag, cmp, steps>>

NoUnits == <<0, 0, 0>>

NoCmp == <<FALSE, FALSE, FALSE, FALSE>>

Init ==
    /\ op = "init"
    /\ recv = 0
    /\ arg = <<0, 0, 0>>
    /\ cur = 0
    /\ err = "nil"
    /\ units = NoUnits
    /\ num = 0
    /\ flag = FALSE
    /\ cmp = NoCmp
    /\ steps = 0

----------------------------------------------------------------------------
(* Constructions and queries.                                              *)

\* date.FromUnits(y, m, d) with the units drawn from the given sets.
FromUnitsOver(Ys, Ms, Ds) ==
    /\ op = "init"
    /\ \E y \in Ys, m \in Ms, d \in Ds :
        /\ op' = "FromUnits"
        /\ recv' = 0
        /\ arg' = <<y, m, d>>
        /\ cur' = FromUnits(y, m, d).v
        /\ err' = FromUnits(y, m, d).err
        /\ UNCHANGED <<units, num, flag, cmp, steps>>

\* var v date.Value / date.Value(n): a value obtained without a constructor.
Literal ==
    /\ op = "init"
    /\ \E v \in Literals :
        /\ op' = "Literal"
        /\ recv' = 0
        /\ arg' = <<0, 0, 0>>
        /\ cur' = v
        /\ err' = "nil"
        /\ UNCHANGED <<units, num, flag, cmp, steps>>

\* date.ToUnits(cur); arg still holds the units cur was constructed from.
ToUnitsCall ==
    /\ op \in {"FromUnits", "Literal"}
    /\ op' = "ToUnits"
    /\ recv' = cur
    /\ units' = ToUnits(cur)
    /\ UNCHANGED <<arg, cur, err, num, flag, cmp, steps>>

\* cur.Year(), cur.Month(), cur.Day()
Accessors ==
    /\ op \in {"FromUnits", "Literal"}
    /\ op' = "Accessors"
    /\ recv' = cur
    /\ units' = <<Year(cur), Month(cur), Day(cur)>>
    /\ UNCHANGED <<arg, cur, err, num, flag, cmp, steps>>

\* date.DaysInMonth(y, m)
DaysInMonthCall ==
    /\ op = "init"
    /\ \E y \in ConvYears, m \in ConvMonths :
        /\ op' = "DaysInMonth"
        /\ arg' = <<y, m, 0>>
        /\ num' = DaysInMonth(y, m)
        /\ UNCHANGED <<recv, cur, err, units, flag, cmp, steps>>

\* date.IsLeapYear(y)
IsLeapYearCall ==
    /\ op = "init"
    /\ \E y \in ConvYears :
        /\ op' = "IsLeapYear"
        /\ arg' = <<y, 0, 0>>
        /\ flag' = IsLeapYear(y)
        /\ UNCHANGED <<recv, cur, err, units, num, cmp, steps>>

NextConv ==
    \/ FromUnitsOver(ConvYears, ConvMonths, ConvDays)
    \/ Literal
    \/ ToUnitsCall
    \/ Accessors
    \/ DaysInMonthCall
    \/ IsLeapYearCall

SpecConv == Init /\ [][NextConv]_vars

----------------------------------------------------------------------------
(* A program run: a value is constructed (or written as a literal), then   *)
(* up to MaxSteps methods are called, each on the value the previous call  *)
(* returned, with comparisons in between.                                  *)

ChainYears == {1752, 1753, 1996, 1997, 9999, 10000}

ChainMonths == {0, 1, 2, 6, 12, 13}

ChainDays == {0, 1, 28, 29, 30, 31, 32}

\* Day counts for AddDays: short steps, the whole width of the supported
\* range in both directions, and the two ends of the int64 range.
DeltaArgs ==
    {Small(n) : n \in (-MaxDelta)..MaxDelta}
        \cup {Small(Max - Min), Small(Min - Max), MinInt64, MaxInt64}

MonthArgs == 0..13

YearArgs == {1752, 1753, 1996, 1997, 2000, 9999, 10000}

WeekdayArgs == {Small(w) : w \in -1..7} \cup {MinInt64, MaxInt64}

CompareArgs(v) == {Nil, 0, Min, Max, v - 1, v, v + 1}

HasValue == op # "init"

\* The state after a method that returns (Value, error) or a Value.
Returned(name, a, r) ==
    /\ op' = name
    /\ recv' = cur
    /\ arg' = a
    /\ cur' = r.v
    /\ err' = r.err
    /\ units' = NoUnits
    /\ num' = 0
    /\ flag' = FALSE
    /\ cmp' = NoCmp
    /\ steps' = steps + 1

AddDaysCall ==
    /\ HasValue /\ steps < MaxSteps
    /\ \E n \in DeltaArgs : Returned("AddDays", <<n.k, n.r, 0>>, AddDays(cur, n))

NextMonthCall ==
    /\ HasValue /\ steps < MaxSteps
    /\ \E m \in MonthArgs : Returned("NextMonth", <<m, 0, 0>>, NextMonth(cur, m))

NextYearCall ==
    /\ HasValue /\ steps < MaxSteps
    /\ \E yy \in YearArgs : Returned("NextYear", <<yy, 0, 0>>, NextYear(cur, yy))

NextWeekdayCall ==
    /\ HasValue /\ steps < MaxSteps
    /\ \E wd \in WeekdayArgs :
          Returned("NextWeekday", <<wd.k, wd.r, 0>>, NextWeekday(cur, wd))

PreviousWeekdayCall ==
    /\ HasValue /\ steps < MaxSteps
    /\ \E w \in WeekdayArgs :
          Returned("PreviousWeekday", <<w.k, w.r, 0>>, PreviousWeekday(cur, w))

StartOfMonthCall ==
    /\ HasValue /\ steps < MaxSteps
    /\ Returned("StartOfMonth", <<0, 0, 0>>, Ret(StartOfMonth(cur), "nil"))

MiddleOfMonthCall ==
    /\ HasValue /\ steps < MaxSteps
    /\ Returned("MiddleOfMonth", <<0, 0, 0>>, Ret(MiddleOfMonth(cur), "nil"))

EndOfMonthCall ==
    /\ HasValue /\ steps < MaxSteps
    /\ Returned("EndOfMonth", <<0, 0, 0>>, Ret(EndOfMonth(cur), "nil"))

StartOfYearCall ==
    /\ HasValue /\ steps < MaxSteps
    /\ Returned("StartOfYear", <<0, 0, 0>>, Ret(StartOfYear(cur), "nil"))

MiddleOfYearCall ==
    /\ HasValue /\ steps < MaxSteps
    /\ Returned("MiddleOfYear", <<0, 0, 0>>, Ret(MiddleOfYear(cur), "nil"))

EndOfYearCall ==
    /\ HasValue /\ steps < MaxSteps
    /\ Returned("EndOfYear", <<0, 0, 0>>, Ret(EndOfYear(cur), "nil"))

\* date.Equal(cur, x), cur.Equals(x), cur.Before(x), cur.After(x)
Compare ==
    /\ HasValue /\ op # "Compare"
    /\ \E x \in CompareArgs(cur) :
        /\ op' = "Compare"
        /\ recv' = cur
        /\ arg' = <<x, 0, 0>>
        /\ cmp' = <<Equal(cur, x), Equals(cur, x), Before(cur, x), After(cur, x)>>
        /\ UNCHANGED <<cur, err, units, num, flag, steps>>

Next ==
    \/ FromUnitsOver(ChainYears, ChainMonths, ChainDays)
    \/ Literal
    \/ AddDaysCall
    \/ NextMonthCall
    \/ NextYearCall
    \/ NextWeekdayCall
    \/ PreviousWeekdayCall
    \/ StartOfMonthCall
    \/ MiddleOfMonthCall
    \/ EndOfMonthCall
    \/ StartOfYearCall
    \/ MiddleOfYearCall
    \/ EndOfYearCall
    \/ Compare

Spec == Init /\ [][Next]_vars

----------------------------------------------------------------------------
(* Reference calendar, written from the calendar's rules and not from the  *)
(* package: the properties below compare the package against it.           *)

RefLeap(y) == ((y % 4) = 0 /\ (y % 100) # 0) \/ ((y % 400) = 0)

RefDaysInMonth(y, m) ==
    IF m \in {4, 6, 9, 11} THEN 30
    ELSE IF m = 2 THEN (IF RefLeap(y) THEN 29 ELSE 28)
    ELSE 31

RefValidUnits(t) ==
    /\ t[1] \in 1753..9999
    /\ t[2] \in 1..12
    /\ t[3] \in 1..RefDaysInMonth(t[1], t[2])

\* Leap years among the years 1..y.
RefLeapsThrough(y) == (y \div 4) - (y \div 100) + (y \div 400)

RECURSIVE RefDaysBeforeMonth(_, _)
RefDaysBeforeMonth(y, m) ==
    IF m <= 1 THEN 0
    ELSE RefDaysBeforeMonth(y, m - 1) + RefDaysInMonth(y, m - 1)

\* The day number of a valid triple, counted in days from 1753-01-01.
RefDayNumber(t) ==
    2361331 + (365 * (t[1] - 1753))
            + (RefLeapsThrough(t[1] - 1) - RefLeapsThrough(1752))
            + RefDaysBeforeMonth(t[1], t[2]) + (t[3] - 1)

----------------------------------------------------------------------------
(* Properties of the conversions (checked under SpecConv).                 *)

\* C1: for every valid triple (y, m, d), ToUnits(FromUnits(y, m, d)) is
\* exactly (y, m, d).
RoundTripUnits ==
    (op = "ToUnits" /\ RefValidUnits(arg)) => units = arg

RoundTripUnitsWitness ==
    /\ op = "ToUnits"
    /\ arg = <<2000, 2, 29>>
    /\ recv = 2451604
    /\ units = <<2000, 2, 29>>

\* C2: FromUnits succeeds exactly on the valid triples; on every other
\* triple it returns (Nil, ErrInvalidDateUnit).
FromUnitsAcceptsExactlyValid ==
    op = "FromUnits" =>
        /\ (err = "nil") <=> RefValidUnits(arg)
        /\ RefValidUnits(arg) => cur # Nil
        /\ ~RefValidUnits(arg) => (cur = Nil /\ err = "ErrInvalidDateUnit")
        /\ arg \in {<<1996, 2, 29>>, <<2000, 2, 29>>} => err = "nil"
        /\ arg \in {<<1997, 2, 29>>, <<1900, 2, 29>>} => err = "ErrInvalidDateUnit"
        /\ (arg[2] \in {0, 13} \/ arg[3] \in {0, 32}) => err = "ErrInvalidDateUnit"

FromUnitsRejectsWitness ==
    /\ op = "FromUnits"
    /\ arg = <<1900, 2, 29>>
    /\ cur = Nil
    /\ err = "ErrInvalidDateUnit"

\* C3: DaysInMonth is NilUnit outside the supported years and months and
\* the calendar's month length inside; IsLeapYear is the leap-year rule
\* inside [1753, 9999] and false outside.
DaysInMonthAndLeapYear ==
    /\ op = "DaysInMonth" =>
          num = IF arg[1] \notin 1753..9999 \/ arg[2] \notin 1..12 THEN -2
                ELSE RefDaysInMonth(arg[1], arg[2])
    /\ op = "IsLeapYear" =>
          flag = (arg[1] \in 1753..9999 /\ RefLeap(arg[1]))

DaysInMonthWitness ==
    /\ op = "DaysInMonth"
    /\ arg = <<2000, 2, 0>>
    /\ num = 29

\* C4: FromUnits maps 1753-01-01 to Min and 9999-12-31 to Max, and rejects
\* the day before and the day after.
RangeBoundaries ==
    op = "FromUnits" =>
        /\ arg = <<1753, 1, 1>> => (cur = 2361331 /\ cur = Min /\ err = "nil")
        /\ arg = <<9999, 12, 31>> => (cur = 5373484 /\ cur = Max /\ err = "nil")
        /\ arg \in {<<1752, 12, 31>>, <<10000, 1, 1>>} =>
              (cur = Nil /\ err = "ErrInvalidDateUnit")

RangeBoundariesWitness ==
    /\ op = "FromUnits"
    /\ arg = <<9999, 12, 31>>
    /\ cur = Max
    /\ err = "nil"

\* C7: ToUnits and Year/Month/Day agree: NilUnit in every component for
\* Nil, -1 in every component for any other value outside [Min, Max], and
\* the calendar date of the day number inside [Min, Max].
UnitsOfValue ==
    op \in {"ToUnits", "Accessors"} =>
        IF recv = Nil THEN units = <<-2, -2, -2>>
        ELSE IF recv < 2361331 \/ recv > 5373484 THEN units = <<-1, -1, -1>>
        ELSE RefValidUnits(units) /\ RefDayNumber(units) = recv

UnitsOfValueWitness ==
    /\ op = "Accessors"
    /\ recv = 0
    /\ units = <<-1, -1, -1>>

----------------------------------------------------------------------------
(* Properties of the value and its arithmetic (checked under Spec).        *)

ArithmeticOps ==
    {"AddDays", "NextMonth", "NextYear", "NextWeekday", "PreviousWeekday",
     "StartOfMonth", "MiddleOfMonth", "EndOfMonth",
     "StartOfYear", "MiddleOfYear", "EndOfYear"}

InRange(v) == 2361331 <= v /\ v <= 5373484

\* C5: every value returned by FromUnits or by the calendar arithmetic,
\* whatever the arguments and however the calls are chained, is Nil or lies
\* in [Min, Max].
ResultNilOrInRange ==
    op \in ArithmeticOps \cup {"FromUnits"} => (cur = -2 \/ InRange(cur))

ResultNilOrInRangeWitness ==
    /\ op = "AddDays"
    /\ steps = 2
    /\ recv = 5373483
    /\ arg = <<0, 1, 0>>
    /\ cur = 5373484

\* C6: Equal, Equals, Before and After are all false when either operand
\* is Nil, and are ==, ==, < and > of the day counts otherwise.
NilIsIncomparable ==
    op = "Compare" =>
        IF recv = -2 \/ arg[1] = -2
        THEN cmp = <<FALSE, FALSE, FALSE, FALSE>>
        ELSE cmp = <<recv = arg[1], recv = arg[1], recv < arg[1], recv > arg[1]>>

NilIsIncomparableWitness ==
    /\ op = "Compare"
    /\ recv = Nil
    /\ arg[1] = Nil
    /\ cmp = <<FALSE, FALSE, FALSE, FALSE>>

\* The integer an AddDays argument <<k, r, 0>> stands for lies within 2^30
\* of 0 exactly when k = 0; otherwise it is within 2^30 of an end of the
\* int64 range, and the sum with a valid date is far outside [Min, Max].
SumInRange(d, a) == a[1] = 0 /\ InRange(d + a[2])

\* C8: for a valid date d, AddDays(n) returns d + n and no error when
\* Min <= d + n <= Max, and (Nil, error) otherwise.
AddDaysShiftsOrFails ==
    (op = "AddDays" /\ InRange(recv)) =>
        /\ SumInRange(recv, arg) => (cur = recv + arg[2] /\ err = "nil")
        /\ ~SumInRange(recv, arg) => (cur = Nil /\ err # "nil")
        /\ (recv = Max /\ arg = <<0, 1, 0>>) => err # "nil"
        /\ (recv = Min /\ arg = <<0, -1, 0>>) => err # "nil"

AddDaysShiftsOrFailsWitness ==
    /\ op = "AddDays"
    /\ recv = Max
    /\ arg = <<0, 1, 0>>
    /\ cur = Nil
    /\ err = "ErrOutOfRange"

\* C9: on a receiver outside [Min, Max] (Nil included) every arithmetic
\* method returns Nil, with a nil error, whatever its argument.
NilInNilOut ==
    (op \in ArithmeticOps /\ ~InRange(recv)) => (cur = Nil /\ err = "nil")

NilInNilOutWitness ==
    /\ op = "NextYear"
    /\ recv = Nil
    /\ steps = 2
    /\ arg[1] = 10000
    /\ cur = Nil
    /\ err = "nil"

\* C10: for a valid date d, NextYear(yy) fails when yy <= year(d); when
\* year(d) < yy <= 9999 it returns the date (yy, month(d), day(d)), or fails
\* when that date does not exist.
NextYearStrictlyAfter ==
    (op = "NextYear" /\ InRange(recv)) =>
        LET u  == ToUnits(recv)
            yy == arg[1]
        IN  IF yy <= u[1] THEN cur = Nil /\ err # "nil"
            ELSE IF yy > 9999 THEN TRUE
            ELSE IF RefValidUnits(<<yy, u[2], u[3]>>)
                 THEN err = "nil" /\ InRange(cur) /\ ToUnits(cur) = <<yy, u[2], u[3]>>
                 ELSE cur = Nil /\ err # "nil"

\* C11: for a valid date (y, mo, day) and a month m in 1..12, NextMonth(m)
\* targets (y, m, day) when m > mo and (y + 1, m, day) otherwise; a valid
\* target is returned and is strictly after d, an invalid one gives
\* (Nil, error).
NextMonthTargets ==
    (op = "NextMonth" /\ InRange(recv) /\ arg[1] \in 1..12) =>
        LET u      == ToUnits(recv)
            m      == arg[1]
            target == <<IF m > u[2] THEN u[1] ELSE u[1] + 1, m, u[3]>>
        IN  IF RefValidUnits(target)
            THEN err = "nil" /\ cur = RefDayNumber(target) /\ cur > recv
            ELSE cur = Nil /\ err # "nil"

NextMonthTargetsWitness ==
    /\ op = "NextMonth"
    /\ recv = gregorianToJulian(1996, 1, 31)
    /\ arg[1] = 2
    /\ cur = Nil
    /\ err = "ErrInvalidDateUnit"

\* Day numbers advance through the week: 1753-01-01 (day 2361331) was a
\* Monday, and Sunday is 0.
RefWeekday(v) == (v + 1) % 7

\* C12: for a valid date d and a weekday w in Sunday..Saturday, NextWeekday
\* returns the one date r in d+1..d+7 whose weekday is w and
\* PreviousWeekday the one in d-7..d-1; the call fails exactly when that
\* date lies outside [Min, Max].
WeekdayNeighbours ==
    (op \in {"NextWeekday", "PreviousWeekday"} /\ InRange(recv)
        /\ arg[1] = 0 /\ arg[2] \in 0..6) =>
        LET w      == arg[2]
            window == IF op = "NextWeekday" THEN (recv + 1)..(recv + 7)
                      ELSE (recv - 7)..(recv - 1)
            target == CHOOSE r \in window : RefWeekday(r) = w
        IN  IF InRange(target)
            THEN cur = target /\ err = "nil" /\ cur # recv
            ELSE cur = Nil /\ err # "nil"

WeekdayNeighboursWitness ==
    /\ op = "NextWeekday"
    /\ recv = Min
    /\ arg = <<0, 1, 0>>
    /\ cur = Min + 7
    /\ err = "nil"

\* C13: for a valid date d = (y, m, _) the six anchors are (y, m, 1),
\* (y, m, DaysInMonth / 2), (y, m, DaysInMonth), (y, 1, 1), (y, 6, 30) and
\* (y, 12, 31); none is Nil, and the start and end of the month and of the
\* year enclose d.
MonthAndYearAnchors ==
    (op \in {"StartOfMonth", "MiddleOfMonth", "EndOfMonth",
             "StartOfYear", "MiddleOfYear", "EndOfYear"} /\ InRange(recv)) =>
        LET u   == ToUnits(recv)
            dim == RefDaysInMonth(u[1], u[2])
            exp == CASE op = "StartOfMonth"  -> <<u[1], u[2], 1>>
                     [] op = "MiddleOfMonth" -> <<u[1], u[2], dim \div 2>>
                     [] op = "EndOfMonth"    -> <<u[1], u[2], dim>>
                     [] op = "StartOfYear"   -> <<u[1], 1, 1>>
                     [] op = "MiddleOfYear"  -> <<u[1], 6, 30>>
                     [] op = "EndOfYear"     -> <<u[1], 12, 31>>
        IN  /\ cur # Nil /\ InRange(cur)
            /\ RefValidUnits(exp)
            /\ cur = RefDayNumber(exp)
            /\ op \in {"StartOfMonth", "StartOfYear"} => cur <= recv
            /\ op \in {"EndOfMonth", "EndOfYear"} => recv <= cur

MonthAndYearAnchorsWitness ==
    /\ op = "EndOfMonth"
    /\ recv = gregorianToJulian(1996, 2, 1)
    /\ cur = gregorianToJulian(1996, 2, 29)

----------------------------------------------------------------------------
(* Package timeofday.  A timeofday.Value wraps one time.Duration, an int64 *)
(* count of nanoseconds.  One day is 86400000000000 ns, more than a 32-bit *)
(* integer holds, so an int64 is written here in mixed radix:              *)
(* Dur(q, s, n) stands for q days + s seconds + n nanoseconds with         *)
(* 0 <= s < 86400 and 0 <= n < 10^9.  Every int64 has exactly one such     *)
(* form, and the arithmetic below is exact.                                *)

\* nsecsPerSecond
nsecsPerSecond == 1000000000

\* the seconds of 24*time.Hour
secondsPerDay == 86400

Dur(q, s, n) == [q |-> q, s |-> s, n |-> n]

\* The one form of the integer q days + s seconds + n nanoseconds, for any
\* integers s and n.
DurNorm(q, s, n) ==
    LET s1 == s + (n \div nsecsPerSecond)
    IN  Dur(q + (s1 \div secondsPerDay), s1 % secondsPerDay, n % nsecsPerSecond)

\* Integer sum, difference, negation and order, without overflow.
DurAdd(a, b) == DurNorm(a.q + b.q, a.s + b.s, a.n + b.n)

DurNeg(a) == DurNorm(-a.q, -a.s, -a.n)

DurSub(a, b) == DurNorm(a.q - b.q, a.s - b.s, a.n - b.n)

DurLess(a, b) ==
    \/ a.q < b.q
    \/ a.q = b.q /\ a.s < b.s
    \/ a.q = b.q /\ a.s = b.s /\ a.n < b.n

DurZero == Dur(0, 0, 0)

\* 24 * time.Hour
Hours24 == Dur(1, 0, 0)

\* math.MaxInt64 = 9223372036854775807, math.MinInt64 and 2^64.
DurMaxInt64 == Dur(106751, 85636, 854775807)

DurMinInt64 == Dur(-106752, 763, 145224192)

TwoTo64 == Dur(213503, 84873, 709551616)

\* The int64 a Go expression yields when its exact value is x.
Int64(x) ==
    IF DurLess(DurMaxInt64, x) THEN DurSub(x, TwoTo64)
    ELSE IF DurLess(x, DurMinInt64) THEN DurAdd(x, TwoTo64)
    ELSE x

\* Go's a + b, a - b and -1 * a on time.Duration.
GoAdd(a, b) == Int64(DurAdd(a, b))

GoSub(a, b) == Int64(DurSub(a, b))

GoNeg(a) == Int64(DurNeg(a))

\* Go's x % (24 * time.Hour): the remainder has the sign of x.
GoRem24h(x) ==
    IF x.q >= 0 THEN Dur(0, x.s, x.n)
    ELSE IF x.s = 0 /\ x.n = 0 THEN DurZero
    ELSE Dur(-1, x.s, x.n)

\* Zero, Min and Max of package timeofday.
TodZero == DurZero

TodMin == DurZero

TodMax == DurSub(Hours24, Dur(0, 0, 1))

TodIsValidUnitsHour24(h, m, s, ns) ==
    (0 <= h) /\ (h <= 24) /\ (0 <= m) /\ (m < 60) /\ (0 <= s) /\ (s < 60)
        /\ (0 <= ns) /\ (ns < nsecsPerSecond)

\* timeofday.IsValidUnits
TodIsValidUnits(h, m, s, ns) ==
    (0 <= h) /\ (h < 24) /\ (0 <= m) /\ (m < 60) /\ (0 <= s) /\ (s < 60)
        /\ (0 <= ns) /\ (ns < nsecsPerSecond)

TodIsValidDurationUpTo24h(d) == ~DurLess(d, DurZero) /\ ~DurLess(Hours24, d)

\* timeofday.IsValidDuration
TodIsValidDuration(d) == ~DurLess(d, DurZero) /\ DurLess(d, Hours24)

\* Value.IsValid
TodIsValid(t) == TodIsValidDuration(t)

\* timeofday.FromUnits: h hours are 3600 h seconds, m minutes 60 m seconds.
TodFromUnits(h, m, s, ns) ==
    IF ~TodIsValidUnits(h, m, s, ns) THEN Ret(TodZero, "ErrInvalidUnit")
    ELSE Ret(DurNorm(0, h * 3600 + m * 60 + s, ns), "nil")

\* timeofday.FromDuration
TodFromDuration(d) ==
    IF ~TodIsValidDuration(d) THEN Ret(TodZero, "ErrInvalidDuration")
    ELSE Ret(d, "nil")

\* The units of a non-negative count: whole hours, then whole minutes and
\* seconds of what is left, then the nanoseconds.
UnitsOfMagnitude(x) ==
    <<x.q * 24 + (x.s \div 3600), (x.s % 3600) \div 60, x.s % 60, x.n>>

UnitsMinuteOfDay(x) == <<x.q * 24 + (x.s \div 3600), x.s \div 60, x.s % 60, x.n>>

\* Value.ToUnits: Go's integer division rounds toward zero, so a negative
\* count yields the units of its magnitude, negated.
TodToUnitsNoHourSubtract(t) ==
    IF ~DurLess(t, DurZero) THEN UnitsMinuteOfDay(t)
    ELSE LET u == UnitsMinuteOfDay(DurNeg(t)) IN <<-u[1], -u[2], -u[3], -u[4]>>

TodToUnits(t) ==
    IF ~DurLess(t, DurZero) THEN UnitsOfMagnitude(t)
    ELSE LET u == UnitsOfMagnitude(DurNeg(t)) IN <<-u[1], -u[2], -u[3], -u[4]>>

TodAddOneReduction(t, d) ==
    LET res == GoAdd(t, d)
    IN  IF DurLess(res, DurZero)
        THEN GoSub(Hours24, GoRem24h(GoNeg(res)))
        ELSE IF ~DurLess(res, Hours24) THEN GoRem24h(res) ELSE res

\* Value.Add
TodAdd(t, d) ==
    LET res  == GoAdd(t, d)
        res1 == IF DurLess(res, DurZero)
                THEN GoSub(Hours24, GoRem24h(GoNeg(res)))
                ELSE res
    IN  IF ~DurLess(res1, Hours24) THEN GoRem24h(res1) ELSE res1

\* Value.Sub
TodSub(t, d) == TodAdd(t, GoNeg(d))

----------------------------------------------------------------------------
(* A timeofday program run.  The variables are those of the date runs: op  *)
(* is the last call, arg the sequence of its arguments, recv the Value held*)
(* before it, cur the Value held after it, err its error, units the tuple  *)
(* or the bytes it returned, flag the IsValid() of the Value it returned.  *)

\* Bound on the calls of Add and Sub after the constructor.
MaxTodSteps == 1

TodHours == {-1, 0, 1, 12, 23, 24}

TodMinutes == {-1, 0, 30, 59, 60}

TodSeconds == {-1, 0, 7, 59, 60}

TodNanos == {-1, 0, 1, 100000000, 120000000, 999999999, 1000000000}

\* Durations handed to FromDuration, Add and Sub: around zero, around one
\* day, whole days, the largest whole number of days either way, and the
\* ends of the int64 range.
DurationArgs ==
    { DurZero, Dur(0, 0, 1), Dur(-1, 86399, 999999999),
      Dur(0, 3600, 0), Dur(-1, 82800, 0), Dur(0, 45296, 500000000),
      TodMax, Hours24, Dur(-1, 0, 0), Dur(1, 3600, 0), Dur(-2, 82800, 0),
      Dur(106751, 0, 0), Dur(-106751, 0, 0),
      DurMaxInt64, DurMinInt64, Dur(-106752, 763, 145224193) }

\* var t timeofday.Value
InitTod ==
    /\ op = "init"
    /\ recv = TodZero
    /\ arg = <<>>
    /\ cur = TodZero
    /\ err = "nil"
    /\ units = <<>>
    /\ num = 0
    /\ flag = FALSE
    /\ cmp = NoCmp
    /\ steps = 0

\* The state after a call that yields the Value v and the error e.
TodReturned(name, a, v, e) ==
    /\ op' = name
    /\ recv' = cur
    /\ arg' = a
    /\ cur' = v
    /\ err' = e
    /\ units' = <<>>
    /\ num' = 0
    /\ flag' = TodIsValid(v)
    /\ cmp' = NoCmp
    /\ steps' = steps + 1

\* t, err := timeofday.FromUnits(h, m, s, ns)
TodFromUnitsCall ==
    /\ op = "init"
    /\ \E h \in TodHours, m \in TodMinutes, s \in TodSeconds, ns \in TodNanos :
        LET r == TodFromUnits(h, m, s, ns)
        IN  TodReturned("FromUnits", <<h, m, s, ns>>, r.v, r.err)

\* t, err := timeofday.FromDuration(d)
TodFromDurationCall ==
    /\ op = "init"
    /\ \E d \in DurationArgs :
        LET r == TodFromDuration(d)
        IN  TodReturned("FromDuration", <<d>>, r.v, r.err)

\* The calls that yield a Value.
TodValueOps == {"FromUnits", "FromDuration", "Add", "Sub"}

\* h, m, s, ns := t.ToUnits()
TodToUnitsCall ==
    /\ op \in TodValueOps
    /\ op' = "ToUnits"
    /\ units' = TodToUnits(cur)
    /\ UNCHANGED <<recv, arg, cur, err, num, flag, cmp, steps>>

\* t = t.Add(d), on a Value a constructor returned without error
TodAddCall ==
    /\ op \in TodValueOps /\ err = "nil" /\ steps <= MaxTodSteps
    /\ \E d \in DurationArgs : TodReturned("Add", <<d>>, TodAdd(cur, d), "nil")

\* t = t.Sub(d)
TodSubCall ==
    /\ op \in TodValueOps /\ err = "nil" /\ steps <= MaxTodSteps
    /\ \E d \in DurationArgs : TodReturned("Sub", <<d>>, TodSub(cur, d), "nil")

\* u := t.Add(a).Add(b) on a Value t a constructor returned
TodAddAddCall ==
    /\ op \in {"FromUnits", "FromDuration"} /\ err = "nil"
    /\ \E a \in DurationArgs, b \in DurationArgs :
        TodReturned("Add.Add", <<a, b>>, TodAdd(TodAdd(cur, a), b), "nil")

\* u := t.Add(d).Sub(d) on a Value t a constructor returned
TodAddSubCall ==
    /\ op \in {"FromUnits", "FromDuration"} /\ err = "nil"
    /\ \E d \in DurationArgs :
        TodReturned("Add.Sub", <<d>>, TodSub(TodAdd(cur, d), d), "nil")

NextTod ==
    \/ TodFromUnitsCall
    \/ TodFromDurationCall
    \/ TodToUnitsCall
    \/ TodAddCall
    \/ TodSubCall
    \/ TodAddAddCall
    \/ TodAddSubCall

SpecTod == InitTod /\ [][NextTod]_vars

----------------------------------------------------------------------------
(* Claims about timeofday construction and arithmetic.                     *)

\* 0 <= d < 24h: a count of less than one day and not below zero has no
\* whole days in it.
RefInDay(d) == d.q = 0

\* The count of h hours, m minutes, s seconds and ns nanoseconds.
RefNanosOfUnits(u) == Dur(0, ((u[1] * 60) + u[2]) * 60 + u[3], u[4])

RefUnitsInRange(u) ==
    u[1] \in 0..23 /\ u[2] \in 0..59 /\ u[3] \in 0..59 /\ u[4] \in 0..999999999

\* C14: FromUnits succeeds exactly when every unit is in its range and
\* FromDuration exactly when 0 <= d < 24h; a failure returns Zero with
\* ErrInvalidUnit or ErrInvalidDuration, and a success returns a Value
\* whose IsValid is true.
FactoriesAcceptExactlyValid ==
    /\ op = "FromUnits" =>
        /\ (err = "nil") <=> RefUnitsInRange(arg)
        /\ err # "nil" => (cur = Dur(0, 0, 0) /\ err = "ErrInvalidUnit")
        /\ err = "nil" => flag
    /\ op = "FromDuration" =>
        /\ (err = "nil") <=> RefInDay(arg[1])
        /\ err # "nil" => (cur = Dur(0, 0, 0) /\ err = "ErrInvalidDuration")
        /\ err = "nil" => flag

FactoriesRejectWitness ==
    /\ op = "FromUnits"
    /\ arg = <<24, 0, 0, 0>>
    /\ err = "ErrInvalidUnit"
    /\ cur = Dur(0, 0, 0)

\* C15: the units given to FromUnits come back from ToUnits, the Value
\* holds h*3600000000000 + m*60000000000 + s*1000000000 + ns nanoseconds,
\* and the units of any Value in [0, 24h) recombine to its duration.
UnitsRoundTrip ==
    /\ (op = "FromUnits" /\ err = "nil") => cur = RefNanosOfUnits(arg)
    /\ (op = "ToUnits" /\ Len(arg) = 4 /\ err = "nil") =>
        (units = arg /\ cur = RefNanosOfUnits(arg))
    /\ (op = "ToUnits" /\ RefInDay(cur)) => RefNanosOfUnits(units) = cur

UnitsRoundTripWitness ==
    /\ op = "ToUnits"
    /\ arg = <<23, 59, 59, 999999999>>
    /\ units = <<23, 59, 59, 999999999>>
    /\ cur = Dur(0, 86399, 999999999)

\* The exact non-negative remainder of x modulo 24h.
RefMod24h(x) == Dur(0, x.s, x.n)

\* C16: Add returns (t + d) mod 24h and Sub returns (t - d) mod 24h, the
\* exact non-negative modulus, for every valid t and every duration d.
AddSubExactModulus ==
    /\ op = "Add" => cur = RefMod24h(DurAdd(recv, arg[1]))
    /\ op = "Sub" => cur = RefMod24h(DurSub(recv, arg[1]))

----------------------------------------------------------------------------
(* The binary encoding: encoding/binary writes and reads the int64 as the  *)
(* eight bytes of its two's complement, most significant byte first.       *)

\* uint64(v)
Uint64(v) == IF DurLess(v, DurZero) THEN DurAdd(v, TwoTo64) ELSE v

\* x >> 8 for x >= 0: the days left over by 256 go to the seconds and the
\* seconds left over to the nanoseconds, 10^9 / 256 = 3906250 apiece.
ShiftRight8(x) ==
    LET s2 == x.s + (x.q % 256) * secondsPerDay
    IN  Dur(x.q \div 256, s2 \div 256, (s2 % 256) * 3906250 + (x.n \div 256))

RECURSIVE ShiftRight(_, _)
\* x >> (8 * k)
ShiftRight(x, k) == IF k = 0 THEN x ELSE ShiftRight8(ShiftRight(x, k - 1))

\* x << 8 for 0 <= x < 2^56: 256 n nanoseconds are
\* 256 (n / 10^6) thousandths of a second and 256 (n % 10^6) nanoseconds.
ShiftLeft8(x) ==
    LET hi == (x.n \div 1000000) * 256
        lo == (x.n % 1000000) * 256
    IN  DurNorm(x.q * 256, x.s * 256 + (hi \div 1000), (hi % 1000) * 1000000 + lo)

RECURSIVE ShiftLeft(_, _)
\* x << (8 * k)
ShiftLeft(x, k) == IF k = 0 THEN x ELSE ShiftLeft8(ShiftLeft(x, k - 1))

\* byte(x): a day and a second are whole multiples of 256 ns.
LowByte(x) == x.n % 256

PutUint64LittleEndian(u) == [i \in 1..8 |-> LowByte(ShiftRight(u, i - 1))]

\* binary.BigEndian.PutUint64: b[0] = byte(v >> 56), ..., b[7] = byte(v)
PutUint64(u) == [i \in 1..8 |-> LowByte(ShiftRight(u, 8 - i))]

RECURSIVE OrShifted(_, _)
\* uint64(b[i]) << (8 * (8 - i)) | ... | uint64(b[8]), for i = k..8
OrShifted(b, k) ==
    IF k > 8 THEN DurZero
    ELSE DurAdd(ShiftLeft(Dur(0, 0, b[k]), 8 - k), OrShifted(b, k + 1))

\* binary.BigEndian.Uint64
BigEndianUint64(b) == OrShifted(b, 1)

\* Value.MarshalBinary
TodMarshalBinary(t) == PutUint64(Uint64(t))

\* Value.UnmarshalBinary on storage holding t: the Value held afterwards
\* and the error.
TodUnmarshalBinary(t, data) ==
    IF Len(data) # 8 THEN Ret(t, "ErrInvalidBinaryDataLen")
    ELSE LET dur == Int64(BigEndianUint64(data))
         IN  IF ~TodIsValidDuration(dur) THEN Ret(t, "ErrInvalidDuration")
             ELSE Ret(dur, "nil")

----------------------------------------------------------------------------
(* The text encoding.  A text is a sequence of one-byte characters.        *)

Digits == <<"0", "1", "2", "3", "4", "5", "6", "7", "8", "9">>

IsDigit(c) == \E i \in 1..10 : Digits[i] = c

DigitVal(c) == (CHOOSE i \in 1..10 : Digits[i] = c) - 1

RECURSIVE Decimal(_)
\* %d of v >= 0
Decimal(v) ==
    IF v < 10 THEN <<Digits[v + 1]>>
    ELSE Decimal(v \div 10) \o <<Digits[(v % 10) + 1]>>

\* fmt's %02d: zero-padded to two characters, the sign included.
Sprintf02d(v) ==
    IF v < 0 THEN <<"-">> \o Decimal(-v)
    ELSE IF v < 10 THEN <<"0">> \o Decimal(v)
    ELSE Decimal(v)

RECURSIVE fmtFracLoop(_, _, _, _)
\* The loop of fmtFrac at iteration i, with buf[w:] written so far.
fmtFracLoop(v, i, print, buf) ==
    IF i = 9 THEN (IF print THEN <<".">> \o buf ELSE buf)
    ELSE LET digit == v % 10
             p     == print \/ digit # 0
         IN  fmtFracLoop(v \div 10, i + 1, p,
                         IF p THEN <<Digits[digit + 1]>> \o buf ELSE buf)

\* 10^k, as the loop ns *= 10 of time.parseNanoseconds computes it.
RECURSIVE Pow10(_)
Pow10(k) == IF k = 0 THEN 1 ELSE 10 * Pow10(k - 1)

fmtFracNoTrim(v) ==
    <<".">> \o [i \in 1..9 |-> Digits[((v \div Pow10(9 - i)) % 10) + 1]]

\* fmtFrac
fmtFrac(v) == fmtFracLoop(v, 0, FALSE, <<>>)

TodStringKeepsZeros(t) ==
    LET u == TodToUnits(t)
    IN  Sprintf02d(u[1]) \o <<":">> \o Sprintf02d(u[2]) \o <<":">>
            \o Sprintf02d(u[3])
            \o (IF u[4] > 0 THEN <<".">> \o Decimal(u[4]) ELSE <<>>)

\* Value.String
TodString(t) ==
    LET u == TodToUnits(t)
    IN  Sprintf02d(u[1]) \o <<":">> \o Sprintf02d(u[2]) \o <<":">>
            \o Sprintf02d(u[3])
            \o (IF u[4] > 0 THEN fmtFrac(u[4]) ELSE <<>>)

\* Value.MarshalText
TodMarshalText(t) == TodString(t)

----------------------------------------------------------------------------
(* time.ParseInLocation with the layout "15:04:05.999999999", as            *)
(* UnmarshalText calls it: an hour of one or two digits, ":", a minute of   *)
(* two digits, ":", a second of two digits, then an optional "." or ","     *)
(* with digits, of which at most nine count, and nothing after that.        *)

From(s, k) == SubSeq(s, k, Len(s))

NoNum == [ok |-> FALSE, v |-> 0, rest |-> <<>>]

\* time.getnum
getnum(s, fixed) ==
    IF Len(s) < 1 \/ ~IsDigit(s[1]) THEN NoNum
    ELSE IF Len(s) < 2 \/ ~IsDigit(s[2])
         THEN (IF fixed THEN NoNum
               ELSE [ok |-> TRUE, v |-> DigitVal(s[1]), rest |-> From(s, 2)])
    ELSE [ok |-> TRUE, v |-> DigitVal(s[1]) * 10 + DigitVal(s[2]),
          rest |-> From(s, 3)]

\* time.commaOrPeriod
commaOrPeriod(c) == c = "." \/ c = ","

RECURSIVE CountDigits(_, _)
\* The number of digits of s from position k on.
CountDigits(s, k) ==
    IF k > Len(s) \/ ~IsDigit(s[k]) THEN 0 ELSE 1 + CountDigits(s, k + 1)

RECURSIVE atoi(_)
\* time.atoi of a run of digits
atoi(s) ==
    IF Len(s) = 0 THEN 0
    ELSE atoi(SubSeq(s, 1, Len(s) - 1)) * 10 + DigitVal(s[Len(s)])

\* time.parseNanoseconds(value, nbytes): value[0] is the separator.
parseNanoseconds(value, nbytes) ==
    LET nb == IF nbytes > 10 THEN 10 ELSE nbytes
    IN  atoi(SubSeq(value, 2, nb)) * Pow10(10 - nb)

\* The stdFracSecond9 step of time.Parse: the nanoseconds and what is left.
ParseFrac(value) ==
    IF Len(value) < 2 \/ ~commaOrPeriod(value[1]) \/ ~IsDigit(value[2])
    THEN [ns |-> 0, rest |-> value]
    ELSE LET i == CountDigits(value, 2)
         IN  [ns |-> parseNanoseconds(value, 1 + i), rest |-> From(value, 2 + i)]

NoClock == [ok |-> FALSE, h |-> 0, m |-> 0, s |-> 0, ns |-> 0]

\* time.ParseInLocation("15:04:05.999999999", text, time.UTC), then
\* Time.Clock and Time.Nanosecond.
ParseClock(text) ==
    LET hh == getnum(text, FALSE)
    IN  IF ~hh.ok \/ hh.v >= 24 THEN NoClock
        ELSE IF Len(hh.rest) < 1 \/ hh.rest[1] # ":" THEN NoClock
        ELSE LET mm == getnum(From(hh.rest, 2), TRUE)
             IN  IF ~mm.ok \/ mm.v >= 60 THEN NoClock
                 ELSE IF Len(mm.rest) < 1 \/ mm.rest[1] # ":" THEN NoClock
                 ELSE LET ss == getnum(From(mm.rest, 2), TRUE)
                      IN  IF ~ss.ok \/ ss.v >= 60 THEN NoClock
                          ELSE LET f == ParseFrac(ss.rest)
                               IN  IF Len(f.rest) > 0 THEN NoClock
                                   ELSE [ok |-> TRUE, h |-> hh.v, m |-> mm.v,
                                         s |-> ss.v, ns |-> f.ns]

TodUnmarshalTextZeroOnError(t, text) ==
    IF Len(text) < 8 \/ Len(text) > 18 THEN Ret(TodZero, "ErrInvalidTextDataLen")
    ELSE LET tv == ParseClock(text)
         IN  IF ~tv.ok THEN Ret(TodZero, "ErrInvalidTimeFormat")
             ELSE Ret(TodFromUnits(tv.h, tv.m, tv.s, tv.ns).v, "nil")

TodUnmarshalTextParsesFirst(t, text) ==
    LET tv == ParseClock(text)
    IN  IF ~tv.ok THEN Ret(t, "ErrInvalidTimeFormat")
        ELSE IF Len(text) < 8 \/ Len(text) > 18 THEN Ret(t, "ErrInvalidTextDataLen")
        ELSE Ret(TodFromUnits(tv.h, tv.m, tv.s, tv.ns).v, "nil")

\* Value.UnmarshalText on storage holding t
TodUnmarshalText(t, text) ==
    IF Len(text) < 8 \/ Len(text) > 18 THEN Ret(t, "ErrInvalidTextDataLen")
    ELSE LET tv == ParseClock(text)
         IN  IF ~tv.ok THEN Ret(t, "ErrInvalidTimeFormat")
             ELSE Ret(TodFromUnits(tv.h, tv.m, tv.s, tv.ns).v, "nil")

----------------------------------------------------------------------------
(* The JSON encoding.  The texts handed to the decoder here hold no         *)
(* control character and no escape other than \" and \\, so a JSON string   *)
(* is the characters between two quotes with those escapes undone.         *)

Quote == "\""

\* fmt.Sprintf("%q", t): the String() of t between quotes; its characters
\* need no escape.
TodMarshalJSON(t) == <<Quote>> \o TodString(t) \o <<Quote>>

\* The 256 bytes in order.  A printable ASCII character, the tab, the line
\* feed, the form feed and the carriage return stand for themselves; any
\* other byte, and the backquote, is written xHH.
Bytes ==
    <<"x00", "x01", "x02", "x03", "x04", "x05", "x06", "x07",
       "x08", "\t", "\n", "x0B", "\f", "\r", "x0E", "x0F",
       "x10", "x11", "x12", "x13", "x14", "x15", "x16", "x17",
       "x18", "x19", "x1A", "x1B", "x1C", "x1D", "x1E", "x1F",
       " ", "!", "\"", "#", "$", "%", "&", "'",
       "(", ")", "*", "+", ",", "-", ".", "/",
       "0", "1", "2", "3", "4", "5", "6", "7",
       "8", "9", ":", ";", "<", "=", ">", "?",
       "@", "A", "B", "C", "D", "E", "F", "G",
       "H", "I", "J", "K", "L", "M", "N", "O",
       "P", "Q", "R", "S", "T", "U", "V", "W",
       "X", "Y", "Z", "[", "\\", "]", "^", "_",
       "x60", "a", "b", "c", "d", "e", "f", "g",
       "h", "i", "j", "k", "l", "m", "n", "o",
       "p", "q", "r", "s", "t", "u", "v", "w",
       "x", "y", "z", "{", "|", "}", "~", "x7F",
       "x80", "x81", "x82", "x83", "x84", "x85", "x86", "x87",
       "x88", "x89", "x8A", "x8B", "x8C", "x8D", "x8E", "x8F",
       "x90", "x91", "x92", "x93", "x94", "x95", "x96", "x97",
       "x98", "x99", "x9A", "x9B", "x9C", "x9D", "x9E", "x9F",
       "xA0", "xA1", "xA2", "xA3", "xA4", "xA5", "xA6", "xA7",
       "xA8", "xA9", "xAA", "xAB", "xAC", "xAD", "xAE", "xAF",
       "xB0", "xB1", "xB2", "xB3", "xB4", "xB5", "xB6", "xB7",
       "xB8", "xB9", "xBA", "xBB", "xBC", "xBD", "xBE", "xBF",
       "xC0", "xC1", "xC2", "xC3", "xC4", "xC5", "xC6", "xC7",
       "xC8", "xC9", "xCA", "xCB", "xCC", "xCD", "xCE", "xCF",
       "xD0", "xD1", "xD2", "xD3", "xD4", "xD5", "xD6", "xD7",
       "xD8", "xD9", "xDA", "xDB", "xDC", "xDD", "xDE", "xDF",
       "xE0", "xE1", "xE2", "xE3", "xE4", "xE5", "xE6", "xE7",
       "xE8", "xE9", "xEA", "xEB", "xEC", "xED", "xEE", "xEF",
       "xF0", "xF1", "xF2", "xF3", "xF4", "xF5", "xF6", "xF7",
       "xF8", "xF9", "xFA", "xFB", "xFC", "xFD", "xFE", "xFF" >>

ByteIndex ==
    [c \in {Bytes[i] : i \in 1..256} |-> (CHOOSE i \in 1..256 : Bytes[i] = c) - 1]

\* The number of the byte c.
ByteVal(c) == ByteIndex[c]

\* isSpace of encoding/json
isSpace(c) == c \in {" ", "\t", "\r", "\n"}

RECURSIVE SkipSpace(_)
SkipSpace(p) == IF Len(p) > 0 /\ isSpace(p[1]) THEN SkipSpace(Tail(p)) ELSE p

RECURSIVE SkipSpaceFrom(_, _)
\* The first position from k on that holds no white space, Len(p) + 1 if
\* there is none.
SkipSpaceFrom(p, k) ==
    IF k <= Len(p) /\ isSpace(p[k]) THEN SkipSpaceFrom(p, k + 1) ELSE k

Backslash == "\\"

HexValue ==
    [c \in {Digits[i] : i \in 1..10} |-> DigitVal(c)]
    @@ ("a" :> 10) @@ ("b" :> 11) @@ ("c" :> 12) @@ ("d" :> 13) @@ ("e" :> 14)
    @@ ("f" :> 15) @@ ("A" :> 10) @@ ("B" :> 11) @@ ("C" :> 12) @@ ("D" :> 13)
    @@ ("E" :> 14) @@ ("F" :> 15)

\* getu4: the number of the escape \uXXXX that starts at k, -1 if there is
\* no such escape there.
getu4(p, k) ==
    IF /\ k + 5 <= Len(p)
       /\ p[k] = Backslash
       /\ p[k + 1] = "u"
       /\ \A i \in 2..5 : p[k + i] \in DOMAIN HexValue
    THEN (((HexValue[p[k + 2]] * 16 + HexValue[p[k + 3]]) * 16)
            + HexValue[p[k + 4]]) * 16 + HexValue[p[k + 5]]
    ELSE -1

\* utf8.EncodeRune: the UTF-8 bytes of the code point r; a surrogate or a
\* number that is no code point becomes U+FFFD.
EncodeRune(r) ==
    LET c == IF r < 0 \/ r > 1114111 \/ r \in 55296..57343 THEN 65533 ELSE r
    IN  IF c < 128 THEN <<Bytes[c + 1]>>
        ELSE IF c < 2048
             THEN <<Bytes[193 + (c \div 64)], Bytes[129 + (c % 64)]>>
        ELSE IF c < 65536
             THEN <<Bytes[225 + (c \div 4096)], Bytes[129 + ((c \div 64) % 64)],
                    Bytes[129 + (c % 64)]>>
        ELSE <<Bytes[241 + (c \div 262144)], Bytes[129 + ((c \div 4096) % 64)],
               Bytes[129 + ((c \div 64) % 64)], Bytes[129 + (c % 64)]>>

\* utf16.DecodeRune: the code point of a surrogate pair, U+FFFD if r1, r2 is
\* no pair.
DecodeSurrogates(r1, r2) ==
    IF r1 \in 55296..56319 /\ r2 \in 56320..57343
    THEN ((r1 - 55296) * 1024) + (r2 - 56320) + 65536
    ELSE 65533

\* utf8.DecodeRune: the length of the well-formed UTF-8 sequence that starts
\* at k with a byte above 127, 0 if the bytes there are not well formed.
RuneSize(p, k) ==
    LET b == [i \in 0..3 |-> IF k + i <= Len(p) THEN ByteVal(p[k + i]) ELSE -1]
    IN  IF b[0] \in 194..223 /\ b[1] \in 128..191 THEN 2
        ELSE IF b[0] = 224 /\ b[1] \in 160..191 /\ b[2] \in 128..191 THEN 3
        ELSE IF /\ b[0] \in (225..236) \cup {238, 239}
                /\ b[1] \in 128..191 /\ b[2] \in 128..191 THEN 3
        ELSE IF b[0] = 237 /\ b[1] \in 128..159 /\ b[2] \in 128..191 THEN 3
        ELSE IF /\ b[0] = 240 /\ b[1] \in 144..191
                /\ b[2] \in 128..191 /\ b[3] \in 128..191 THEN 4
        ELSE IF /\ b[0] \in 241..243 /\ b[1] \in 128..191
                /\ b[2] \in 128..191 /\ b[3] \in 128..191 THEN 4
        ELSE IF /\ b[0] = 244 /\ b[1] \in 128..143
                /\ b[2] \in 128..191 /\ b[3] \in 128..191 THEN 4
        ELSE 0

\* What the one-character escapes of a JSON string stand for.
Unescaped ==
    (Quote :> Quote) @@ (Backslash :> Backslash) @@ ("/" :> "/")
    @@ ("b" :> "x08") @@ ("f" :> "\f") @@ ("n" :> "\n") @@ ("r" :> "\r")
    @@ ("t" :> "\t")

RECURSIVE StringEnd(_, _)
\* The scanner on a string literal whose body starts at k: the position of
\* the closing quote, 0 if the literal does not end, holds a control
\* character or holds an escape that JSON does not have.
StringEnd(p, k) ==
    IF k > Len(p) THEN 0
    ELSE IF p[k] = Quote THEN k
    ELSE IF p[k] = Backslash
         THEN (IF k < Len(p) /\ p[k + 1] \in DOMAIN Unescaped
               THEN StringEnd(p, k + 2)
               ELSE IF getu4(p, k) >= 0 THEN StringEnd(p, k + 6)
               ELSE 0)
    ELSE IF ByteVal(p[k]) < 32 THEN 0
    ELSE StringEnd(p, k + 1)

NoString == [ok |-> FALSE, s |-> <<>>]

RECURSIVE ScanString(_, _, _)
\* The string literal of p whose body starts at k, acc being the bytes
\* decoded so far (the scanner and unquote of encoding/json): escapes are
\* replaced by what they stand for, \uXXXX by the UTF-8 bytes of its code
\* point, a pair of surrogate escapes by the bytes of the one code point, a
\* lone surrogate and bytes that are not UTF-8 by the bytes of U+FFFD.
ScanString(p, k, acc) ==
    IF k > Len(p) THEN NoString
    ELSE IF p[k] = Quote THEN [ok |-> TRUE, s |-> acc]
    ELSE IF p[k] = Backslash
         THEN (IF k < Len(p) /\ p[k + 1] \in DOMAIN Unescaped
               THEN ScanString(p, k + 2, Append(acc, Unescaped[p[k + 1]]))
               ELSE IF getu4(p, k) < 0 THEN NoString
               ELSE LET rr  == getu4(p, k)
                        dec == DecodeSurrogates(rr, getu4(p, k + 6))
                    IN  IF rr \in 55296..57343 /\ dec # 65533
                        THEN ScanString(p, k + 12, acc \o EncodeRune(dec))
                        ELSE ScanString(p, k + 6, acc \o EncodeRune(rr)))
    ELSE IF ByteVal(p[k]) < 32 THEN NoString
    ELSE IF ByteVal(p[k]) < 128 THEN ScanString(p, k + 1, Append(acc, p[k]))
    ELSE IF RuneSize(p, k) = 0 THEN ScanString(p, k + 1, acc \o EncodeRune(65533))
    ELSE ScanString(p, k + RuneSize(p, k),
                    acc \o SubSeq(p, k, k + RuneSize(p, k) - 1))

\* json.NewDecoder(r).Decode(&s) for a string s: the first JSON value of
\* the input is decoded; a string is stored, null leaves s empty, any other
\* value or a malformed one is an error.  Input after the value is not read.
DecodeJSONString(p) ==
    LET v == SkipSpace(p)
    IN  IF Len(v) >= 4 /\ SubSeq(v, 1, 4) = <<"n", "u", "l", "l">>
        THEN [ok |-> TRUE, s |-> <<>>]
        ELSE IF Len(v) >= 1 /\ v[1] = Quote THEN ScanString(v, 2, <<>>)
        ELSE NoString

RECURSIVE DigitsEnd(_, _)
\* The last of the digits that start at k, k - 1 if there is no digit at k.
DigitsEnd(p, k) ==
    IF k <= Len(p) /\ IsDigit(p[k]) THEN DigitsEnd(p, k + 1) ELSE k - 1

\* The scanner on a number that starts at k: the position of its last
\* character, 0 if what is there is no number.
NumberEnd(p, k) ==
    LET i    == IF p[k] = "-" THEN k + 1 ELSE k
        int  == IF i > Len(p) \/ ~IsDigit(p[i]) THEN 0
                ELSE IF p[i] = "0" THEN i
                ELSE DigitsEnd(p, i)
        frac == IF int = 0 THEN 0
                ELSE IF int < Len(p) /\ p[int + 1] = "."
                     THEN (IF DigitsEnd(p, int + 2) >= int + 2
                           THEN DigitsEnd(p, int + 2) ELSE 0)
                ELSE int
        j    == IF frac + 2 <= Len(p) /\ p[frac + 2] \in {"+", "-"}
                THEN frac + 3 ELSE frac + 2
    IN  IF frac = 0 THEN 0
        ELSE IF frac < Len(p) /\ p[frac + 1] \in {"e", "E"}
             THEN (IF DigitsEnd(p, j) >= j THEN DigitsEnd(p, j) ELSE 0)
        ELSE frac

\* The scanner on the literal w at k.
LiteralEnd(p, k, w) ==
    IF k + Len(w) - 1 <= Len(p) /\ SubSeq(p, k, k + Len(w) - 1) = w
    THEN k + Len(w) - 1 ELSE 0

RECURSIVE ValueEnd(_, _, _)
RECURSIVE ElementsEnd(_, _, _)
RECURSIVE MembersEnd(_, _, _)

\* The scanner on the JSON value that starts at k inside depth arrays and
\* objects: the position of its last character, 0 if there is no value.
ValueEnd(p, k, depth) ==
    IF k > Len(p) THEN 0
    ELSE IF p[k] = Quote THEN StringEnd(p, k + 1)
    ELSE IF p[k] = "["
         THEN (IF depth >= 10000 THEN 0
               ELSE LET j == SkipSpaceFrom(p, k + 1)
                    IN  IF j <= Len(p) /\ p[j] = "]" THEN j
                        ELSE ElementsEnd(p, j, depth + 1))
    ELSE IF p[k] = "{"
         THEN (IF depth >= 10000 THEN 0
               ELSE LET j == SkipSpaceFrom(p, k + 1)
                    IN  IF j <= Len(p) /\ p[j] = "}" THEN j
                        ELSE MembersEnd(p, j, depth + 1))
    ELSE IF p[k] = "-" \/ IsDigit(p[k]) THEN NumberEnd(p, k)
    ELSE IF p[k] = "t" THEN LiteralEnd(p, k, <<"t", "r", "u", "e">>)
    ELSE IF p[k] = "f" THEN LiteralEnd(p, k, <<"f", "a", "l", "s", "e">>)
    ELSE IF p[k] = "n" THEN LiteralEnd(p, k, <<"n", "u", "l", "l">>)
    ELSE 0

\* The elements of an array from the one at j to the closing bracket.
ElementsEnd(p, j, depth) ==
    LET e == ValueEnd(p, j, depth)
        n == SkipSpaceFrom(p, e + 1)
    IN  IF e = 0 \/ n > Len(p) THEN 0
        ELSE IF p[n] = "," THEN ElementsEnd(p, SkipSpaceFrom(p, n + 1), depth)
        ELSE IF p[n] = "]" THEN n
        ELSE 0

\* The members of an object from the one at j to the closing brace.
MembersEnd(p, j, depth) ==
    IF j > Len(p) \/ p[j] # Quote THEN 0
    ELSE LET s == StringEnd(p, j + 1)
             c == SkipSpaceFrom(p, s + 1)
             e == ValueEnd(p, SkipSpaceFrom(p, c + 1), depth)
             n == SkipSpaceFrom(p, e + 1)
         IN  IF s = 0 \/ c > Len(p) \/ p[c] # ":" \/ e = 0 \/ n > Len(p) THEN 0
             ELSE IF p[n] = "," THEN MembersEnd(p, SkipSpaceFrom(p, n + 1), depth)
             ELSE IF p[n] = "}" THEN n
             ELSE 0

\* checkValid: d is one JSON value with nothing but white space around it.
JSONValid(d) ==
    LET e == ValueEnd(d, SkipSpaceFrom(d, 1), 0)
    IN  e # 0 /\ SkipSpaceFrom(d, e + 1) > Len(d)

\* The bytes of the value of a valid JSON text, which json.Unmarshal hands
\* to an Unmarshaler.
JSONToken(d) ==
    IF ~JSONValid(d) THEN <<>>
    ELSE SubSeq(d, SkipSpaceFrom(d, 1), ValueEnd(d, SkipSpaceFrom(d, 1), 0))

RECURSIVE TrimLeftQuotes(_)
TrimLeftQuotes(s) ==
    IF Len(s) > 0 /\ s[1] = Quote THEN TrimLeftQuotes(Tail(s)) ELSE s

RECURSIVE TrimRightQuotes(_)
TrimRightQuotes(s) ==
    IF Len(s) > 0 /\ s[Len(s)] = Quote
    THEN TrimRightQuotes(SubSeq(s, 1, Len(s) - 1)) ELSE s

\* strings.Trim(s, `"`)
TrimQuotes(s) == TrimRightQuotes(TrimLeftQuotes(s))

\* Value.UnmarshalJSON on storage holding t
TodUnmarshalJSON(t, p) ==
    IF p = <<"n", "u", "l", "l">> THEN Ret(DurZero, "nil")
    ELSE LET d == DecodeJSONString(p)
         IN  IF ~d.ok THEN Ret(t, "ErrInvalidTextData")
             ELSE TodUnmarshalText(t, TrimQuotes(d.s))

TodScanAcceptsInt64(t, src) ==
    IF src.type = "[]byte" THEN TodUnmarshalBinary(t, src.val)
    ELSE IF src.type = "string" THEN TodUnmarshalText(t, src.val)
    ELSE IF src.type = "int64" THEN TodFromDuration(Dur(0, 0, src.val[1]))
    ELSE Ret(t, "ErrUnsupportedSourceType")

\* Value.Scan on storage holding t; src is a Go value with its dynamic type.
TodScan(t, src) ==
    IF src.type = "[]byte" THEN TodUnmarshalBinary(t, src.val)
    ELSE IF src.type = "string" THEN TodUnmarshalText(t, src.val)
    ELSE Ret(t, "ErrUnsupportedSourceType")

----------------------------------------------------------------------------
(* A codec run: a Value is constructed, one of the decoders is called on   *)
(* the storage that holds it, and the Value held is encoded again.         *)

\* Values whose encodings are handed back to the decoders.
CodecValues ==
    { TodZero, Dur(0, 0, 1), Dur(0, 1, 0), Dur(0, 3723, 120000000),
      Dur(0, 45296, 500000000), Dur(0, 86399, 0), TodMax }

\* Byte slices for UnmarshalBinary: encodings, slices of other lengths, and
\* the bytes of 24h, -1, math.MinInt64, math.MaxInt64, "12:34:56", "12:34:56.5".
BinaryInputs ==
    {TodMarshalBinary(v) : v \in CodecValues}
    \cup {
      <<>>,
      <<0>>,
      <<0, 0, 0, 0, 0, 0, 0>>,
      <<0, 0, 0, 0, 0, 0, 0, 0, 0>>,
      <<0, 0, 78, 148, 145, 78, 255, 255, 0>>,
      <<0, 0, 78, 148, 145, 79, 0, 0>>,
      <<255, 255, 255, 255, 255, 255, 255, 255>>,
      <<128, 0, 0, 0, 0, 0, 0, 0>>,
      <<127, 255, 255, 255, 255, 255, 255, 255>>,
      <<49, 50, 58, 51, 52, 58, 53, 54>>,
      <<49, 50, 58, 51, 52, 58, 53, 54, 46, 53>> }

\* Texts for UnmarshalText: encodings, texts too short and too long, units
\* out of range, and departures from hh:mm:ss.fffffffff.
TextInputs ==
    {TodMarshalText(v) : v \in CodecValues}
    \cup {
      <<>>,
      <<"1", "2", ":", "3", "4">>,
      <<"1", ":", "0", "2", ":", "0", "3">>,
      <<"1", ":", "0", "2", ":", "0", "3", ".", "5">>,
      <<"1", ":", "0", "2", ":", "0", "3", ".", "1", "2", "3", "4", "5", "6", "7", "8", "9", "1">>,
      <<"2", "4", ":", "0", "0", ":", "0", "0">>,
      <<"1", "2", ":", "6", "0", ":", "0", "0">>,
      <<"1", "2", ":", "3", "4", ":", "6", "0">>,
      <<"1", "2", ":", "3", "4", ":", "5">>,
      <<"1", "2", ":", "3", "4", ":", "5", "6", ".">>,
      <<"1", "2", ":", "3", "4", ":", "5", "6", ",", "5">>,
      <<"1", "2", ":", "3", "4", ":", "5", "6", ".", "5", "x">>,
      <<"1", "2", ":", "3", "4", ":", "5", "6", " ">>,
      <<" ", "1", "2", ":", "3", "4", ":", "5", "6">>,
      <<"1", "2", "-", "3", "4", "-", "5", "6">>,
      <<"a", "b", ":", "c", "d", ":", "e", "f">>,
      <<"-", "1", ":", "0", "0", ":", "0", "0">>,
      <<"1", "2", ":", "3", "4", ":", "5", "6", ".", "5", "0", "0">>,
      <<"1", "2", ":", "3", "4", ":", "5", "6", ".", "1", "2", "3", "4", "5", "6", "7", "8", "9", "0">>,
      <<"2", "3", ":", "5", "9", ":", "5", "9", ".", "9", "9", "9", "9", "9", "9", "9", "9", "9", "9">>,
      <<"0", "0", ":", "6", "0", ":", "0", "0">>,
      <<"0", "0", ":", "0", "0", ":", "6", "0">>,
      <<"0", "0", "_", "0", "0", ":", "0", "0">>,
      <<"0", "0", ":", "0", "0", "_", "0", "0">>,
      <<"0", "0", ":", "0", "0", ":", "0", "0", "_", "0">>,
      <<"1", "2", ":", "3", "4", ":", "5", "6", ".", "1">>,
      <<"9", "9", ":", "9", "9", ":", "9", "9", ".", "1", "2", "3", "4", "5", "6", "7", "8", "9", "0", "1", "2">> }

\* Inputs for UnmarshalJSON: encodings, null, values that are no string,
\* texts that are no JSON, strings that UnmarshalText rejects or accepts,
\* white space around the value, escapes, control characters and bytes
\* above 127 inside strings.
JSONInputs ==
    {TodMarshalJSON(v) : v \in CodecValues}
    \cup {
      <<"n", "u", "l", "l">>,
      <<" ", "n", "u", "l", "l">>,
      <<"n", "u", "l">>,
      <<"t", "r", "u", "e">>,
      <<"1", "2">>,
      <<"1", "2", ":", "3", "4", ":", "5", "6">>,
      <<"[", "]">>,
      <<"{", "}">>,
      <<"\"", "\"">>,
      <<"\"", "1", "2", ":", "3", "4", ":", "5", "6">>,
      <<"\"", "2", "4", ":", "0", "0", ":", "0", "0", "\"">>,
      <<"\"", "1", "2", ":", "3", "4", ":", "5", "6", "\"", " ">>,
      <<" ", "\"", "1", "2", ":", "3", "4", ":", "5", "6", "\"">>,
      <<"\"", "1", "2", ":", "3", "4", ":", "5", "6", "\"", "x">>,
      <<"\"", "1", ":", "0", "2", ":", "0", "3", ".", "5", "\"">>,
      <<"\"", "1", "2", ":", "3", "4", ":", "5", "6", ".", "5", "0", "0", "\"">>,
      <<"\"", "n", "u", "l", "l", "\"">>,
      <<"4", "2">>,
      <<"[", "1", "]">>,
      <<"{", "\"", "a", "\"", ":", "1", "}">>,
      <<"\"", "0", "0", ":", "6", "0", ":", "0", "0", "\"">>,
      <<"\"", "1", "2", ":", "3", "4", "\"">>,
      <<"\"", "1", "2", ":", "3", "4", ":", "5", "6", ".", "1", "2", "3", "4", "5", "6", "7", "8", "9", "0", "\"">>,
      <<"\"", "1", "2", ":", "3", "4", ":", "5", "6", ".", "1", "\"">>,
      <<"\"", "\\", "\"", "1", "2", ":", "3", "4", ":", "5", "6", "\\", "\"", "\"">>,
      <<"\"", "1", "2", ":", "3", "4", ":", "5", "6", "\\", "\"", "\"">>,
      <<"\"", "1", "2", ":", "3", "4", ":", "5", "\\", "\\", "\"">>,
      <<"\"", "\\", "\"", "\\", "\"", "\"">>,
      <<"\t", "\"", "1", "2", ":", "3", "4", ":", "5", "6", "\"">>,
      <<"\"", "1", "2", ":", "3", "4", ":", "5", "6", "\"", "\n">>,
      <<"\r", "\n", "\"", "1", "2", ":", "3", "4", ":", "5", "6", "\"", "\r", "\n">>,
      <<"\t", "n", "u", "l", "l">>,
      <<"n", "u", "l", "l", "\n">>,
      <<"\"", "1", "2", ":", "3", "4", ":", "5", "\\", "u", "0", "0", "3", "6", "\"">>,
      <<"\"", "1", "2", ":", "3", "4", ":", "5", "6", "\\", "/", "\"">>,
      <<"\"", "1", "2", ":", "3", "4", ":", "5", "6", "\\", "n", "\"">>,
      <<"\"", "1", "2", ":", "3", "4", ":", "5", "6", "\t", "\"">>,
      <<"\"", "1", "2", ":", "3", "4", ":", "5", "\\", "u", "0", "0", "e", "9", "\"">>,
      <<"\"", "\\", "u", "d", "8", "3", "d", "\\", "u", "d", "e", "0", "0", ":", "3", "4", ":", "5", "6", "\"">>,
      <<"\"", "\\", "u", "d", "8", "3", "d", "\"">>,
      <<"\"", "1", "2", ":", "3", "4", ":", "5", "xC3", "xA9", "\"">>,
      <<"\"", "1", "2", ":", "3", "4", ":", "5", "xFF", "\"">>,
      <<"f", "a", "l", "s", "e">>,
      <<"-", "1">>,
      <<"1", ".", "5">>,
      <<"1", "e", "5">>,
      <<"0", "1">>,
      <<"[", "1", ",", "2", "]">>,
      <<"[", "1", ",", "]">>,
      <<"[", " ", "]">>,
      <<"{", " ", "}">>,
      <<"{", "\"", "a", "\"", ":", "\"", "1", "2", ":", "3", "4", ":", "5", "6", "\"", "}">>,
      <<"\n", "4", "2", "\n">> }

\* Go values for Scan, each with its dynamic type.
ScanInputs ==
    {[type |-> "[]byte", val |-> b] : b \in BinaryInputs}
        \cup {[type |-> "string", val |-> s] : s \in TextInputs}
        \cup { [type |-> "nil", val |-> <<>>], [type |-> "int64", val |-> <<0>>],
               [type |-> "float64", val |-> <<0>>],
               [type |-> "time.Time", val |-> <<>>] }

\* The calls that write to the storage of a Value.
TodDecodeOps == {"UnmarshalBinary", "UnmarshalText", "UnmarshalJSON", "Scan"}

\* The state after a decoder returned r on the input a.
Decoded(name, a, r) == TodReturned(name, <<a>>, r.v, r.err)

\* A decoder is called on storage a constructor filled without error.
CanDecode == op \in {"FromUnits", "FromDuration"} /\ err = "nil"

\* err := t.UnmarshalBinary(data)
UnmarshalBinaryCall ==
    /\ CanDecode
    /\ \E data \in BinaryInputs :
        Decoded("UnmarshalBinary", data, TodUnmarshalBinary(cur, data))

\* err := t.UnmarshalText(text)
UnmarshalTextCall ==
    /\ CanDecode
    /\ \E text \in TextInputs :
        Decoded("UnmarshalText", text, TodUnmarshalText(cur, text))

\* err := t.UnmarshalJSON(p)
UnmarshalJSONCall ==
    /\ CanDecode
    /\ \E p \in JSONInputs :
        Decoded("UnmarshalJSON", p, TodUnmarshalJSON(cur, p))

\* err := t.Scan(src)
ScanCall ==
    /\ CanDecode
    /\ \E src \in ScanInputs : Decoded("Scan", src, TodScan(cur, src))

\* The state after an encoder returned (out, nil).
Encoded(name, out) ==
    /\ op' = name
    /\ units' = out
    /\ err' = "nil"
    /\ UNCHANGED <<recv, arg, cur, num, flag, cmp, steps>>

CanEncode == op \in TodValueOps \cup TodDecodeOps

\* s := t.String()
StringCall ==
    /\ CanEncode
    /\ op' = "String"
    /\ units' = TodString(cur)
    /\ UNCHANGED <<recv, arg, cur, err, num, flag, cmp, steps>>

\* b, err := t.MarshalBinary()
MarshalBinaryCall == CanEncode /\ Encoded("MarshalBinary", TodMarshalBinary(cur))

\* b, err := t.MarshalText()
MarshalTextCall == CanEncode /\ Encoded("MarshalText", TodMarshalText(cur))

\* b, err := t.MarshalJSON()
MarshalJSONCall == CanEncode /\ Encoded("MarshalJSON", TodMarshalJSON(cur))

NextCodec ==
    \/ TodFromUnitsCall
    \/ TodFromDurationCall
    \/ UnmarshalBinaryCall
    \/ UnmarshalTextCall
    \/ UnmarshalJSONCall
    \/ ScanCall
    \/ MarshalBinaryCall
    \/ MarshalTextCall
    \/ MarshalJSONCall
    \/ StringCall

SpecCodec == InitTod /\ [][NextCodec]_vars

----------------------------------------------------------------------------
(* Claims about the timeofday codecs.                                      *)

\* 256^7, 256^6, ..., 256, 1: the weights of the eight bytes.
RefWeights ==
    << Dur(833, 86394, 37927936),
       Dur(3, 22274, 976710656),
       Dur(0, 1099, 511627776),
       Dur(0, 4, 294967296),
       Dur(0, 0, 16777216),
       Dur(0, 0, 65536),
       Dur(0, 0, 256),
       Dur(0, 0, 1) >>

\* c x for x >= 0 and 0 <= c <= 255, by long multiplication.
RefScale(x, c) ==
    LET hi == (x.n \div 1000000) * c
        lo == (x.n % 1000000) * c
    IN  DurNorm(x.q * c, x.s * c + (hi \div 1000), (hi % 1000) * 1000000 + lo)

RECURSIVE RefUnsigned(_, _)
\* b[1] 256^7 + ... + b[k] 256^(8-k)
RefUnsigned(b, k) ==
    IF k = 0 THEN Dur(0, 0, 0)
    ELSE DurAdd(RefUnsigned(b, k - 1), RefScale(RefWeights[k], b[k]))

\* The signed 64-bit integer that eight bytes spell in two's complement.
RefSigned(b) ==
    IF b[1] >= 128 THEN DurSub(RefUnsigned(b, 8), TwoTo64) ELSE RefUnsigned(b, 8)

\* C17: MarshalBinary of a valid Value returns no error and exactly eight
\* bytes, the big-endian two's complement of its nanosecond count; Max
\* encodes 86399999999999, the bytes 00 00 4E 94 91 4E FF FF.
BinaryIsBigEndianInt64 ==
    (op = "MarshalBinary" /\ RefInDay(cur)) =>
        /\ err = "nil"
        /\ Len(units) = 8
        /\ \A i \in 1..8 : units[i] \in 0..255
        /\ RefSigned(units) = cur
        /\ cur = Dur(0, 86399, 999999999) =>
            units = <<0, 0, 78, 148, 145, 78, 255, 255>>

BinaryIsBigEndianInt64Witness ==
    /\ op = "MarshalBinary"
    /\ cur = Dur(0, 86399, 999999999)
    /\ units = <<0, 0, 78, 148, 145, 78, 255, 255>>

\* C18: UnmarshalBinary returns ErrInvalidBinaryDataLen unless the input is
\* exactly eight bytes; for eight bytes it reads a big-endian signed 64-bit
\* integer, returns ErrInvalidDuration when that is negative or at least
\* 86400000000000, and otherwise returns no error and stores the integer.
UnmarshalBinaryLengthThenRange ==
    op = "UnmarshalBinary" =>
        LET data == arg[1]
        IN  /\ Len(data) # 8 => err = "ErrInvalidBinaryDataLen"
            /\ (Len(data) = 8 /\ ~RefInDay(RefSigned(data))) =>
                err = "ErrInvalidDuration"
            /\ (Len(data) = 8 /\ RefInDay(RefSigned(data))) =>
                (err = "nil" /\ cur = RefSigned(data))

UnmarshalBinaryRangeWitness ==
    /\ op = "UnmarshalBinary"
    /\ arg[1] = <<0, 0, 78, 148, 145, 79, 0, 0>>
    /\ err = "ErrInvalidDuration"

\* C19: a decoder that returns an error has written nothing: the storage
\* still holds the Value it held before UnmarshalBinary, UnmarshalText,
\* UnmarshalJSON or Scan was called.
FailedDecodeLeavesStorage ==
    (op \in {"UnmarshalBinary", "UnmarshalText", "UnmarshalJSON", "Scan"}
        /\ err # "nil") => cur = recv

FailedDecodeLeavesStorageWitness ==
    /\ op = "UnmarshalText"
    /\ arg[1] = <<"2", "4", ":", "0", "0", ":", "0", "0">>
    /\ err = "ErrInvalidTimeFormat"
    /\ recv = Dur(0, 86399, 999999999)
    /\ cur = Dur(0, 86399, 999999999)

\* Storage contents a decoder may find.
PriorContents == {Dur(0, 0, 0), Dur(0, 86399, 999999999), recv}

\* C20: decoding what an encoder wrote for a valid Value t returns no error
\* and leaves the destination equal to t, for the binary, text and JSON
\* codecs and for any prior content of the destination.
CodecsRoundTrip ==
    /\ \A v \in CodecValues :
        /\ (op = "UnmarshalBinary" /\ arg[1] = TodMarshalBinary(v)) =>
            (err = "nil" /\ cur = v)
        /\ (op = "UnmarshalText" /\ arg[1] = TodMarshalText(v)) =>
            (err = "nil" /\ cur = v)
        /\ (op = "UnmarshalJSON" /\ arg[1] = TodMarshalJSON(v)) =>
            (err = "nil" /\ cur = v)
    /\ \A prior \in PriorContents :
        /\ (op = "MarshalBinary" /\ RefInDay(cur)) =>
            TodUnmarshalBinary(prior, units) = Ret(cur, "nil")
        /\ (op = "MarshalText" /\ RefInDay(cur)) =>
            TodUnmarshalText(prior, units) = Ret(cur, "nil")
        /\ (op = "MarshalJSON" /\ RefInDay(cur)) =>
            TodUnmarshalJSON(prior, units) = Ret(cur, "nil")

CodecsRoundTripWitness ==
    /\ op = "UnmarshalJSON"
    /\ arg[1] = <<"\"", "1", "2", ":", "3", "4", ":", "5", "6", ".", "5", "\"">>
    /\ recv = Dur(0, 86399, 999999999)
    /\ cur = Dur(0, 45296, 500000000)
    /\ err = "nil"

----------------------------------------------------------------------------
(* Claims about the text, JSON and SQL decoders.                           *)

\* Two digits, any character, two digits, any character, two digits.
RefClockShape(text) ==
    /\ Len(text) >= 8
    /\ \A i \in {1, 2, 4, 5, 7, 8} : text[i] \in {Digits[j] : j \in 1..10}

RefNumber2(text, i) ==
    ((CHOOSE j \in 1..10 : Digits[j] = text[i]) - 1) * 10
        + (CHOOSE j \in 1..10 : Digits[j] = text[i + 1]) - 1

\* A separator of hh:mm:ss[.fffffffff] is wrong: one of the two after the
\* hours and the minutes is not ':', or what follows the seconds does not
\* start with '.'.
RefWrongSeparator(text) ==
    /\ RefClockShape(text)
    /\ \/ text[3] # ":"
       \/ text[6] # ":"
       \/ Len(text) > 8 /\ text[9] # "."

RefUnitOutOfRange(text) ==
    /\ RefClockShape(text)
    /\ \/ RefNumber2(text, 1) > 23
       \/ RefNumber2(text, 4) > 59
       \/ RefNumber2(text, 7) > 59

\* C21: UnmarshalText checks the length before the content: a text shorter
\* than 8 or longer than 18 bytes fails with ErrInvalidTextDataLen whatever
\* it holds, and a text of 8 to 18 bytes with a wrong separator or a unit
\* out of range fails with ErrInvalidTimeFormat; neither stores a value.
TextLengthBeforeContent ==
    op = "UnmarshalText" =>
        LET text == arg[1]
        IN  /\ (Len(text) < 8 \/ Len(text) > 18) =>
                (err = "ErrInvalidTextDataLen" /\ cur = recv)
            /\ (Len(text) \in 8..18
                    /\ (RefWrongSeparator(text) \/ RefUnitOutOfRange(text))) =>
                (err = "ErrInvalidTimeFormat" /\ cur = recv)

\* hh, mm or ss: two digits.
RefPad2(v) == <<Digits[(v \div 10) + 1], Digits[(v % 10) + 1]>>

RefPlaces == <<100000000, 10000000, 1000000, 100000, 10000, 1000, 100, 10, 1>>

\* The nine digits of ns, zero-padded.
RefNineDigits(ns) == [i \in 1..9 |-> Digits[((ns \div RefPlaces[i]) % 10) + 1]]

RECURSIVE RefTrimZeros(_)
RefTrimZeros(s) ==
    IF Len(s) > 0 /\ s[Len(s)] = "0" THEN RefTrimZeros(SubSeq(s, 1, Len(s) - 1))
    ELSE s

\* hh:mm:ss, then nothing or '.' and the trimmed fraction.
RefClockText(t) ==
    RefPad2(t.s \div 3600) \o <<":">> \o RefPad2((t.s \div 60) % 60) \o <<":">>
        \o RefPad2(t.s % 60)
        \o (IF t.n = 0 THEN <<>> ELSE <<".">> \o RefTrimZeros(RefNineDigits(t.n)))

\* C22: String and MarshalText of a valid Value write two-digit hh:mm:ss,
\* then nothing when ns = 0 and otherwise '.' with the nine-digit ns less
\* its trailing zeros; 100000000 ns gives ".1", 1 ns ".000000001", and the
\* text never ends in '.' or in a '0' after a '.'.
TextIsCanonical ==
    (op \in {"String", "MarshalText"} /\ RefInDay(cur)) =>
        /\ units = RefClockText(cur)
        /\ Len(units) \in 8..18
        /\ units[Len(units)] # "."
        /\ Len(units) > 8 => (units[9] = "." /\ units[Len(units)] # "0")
        /\ cur = Dur(0, 0, 100000000) =>
            units = <<"0", "0", ":", "0", "0", ":", "0", "0", ".", "1">>
        /\ cur = Dur(0, 0, 1) =>
            units = <<"0", "0", ":", "0", "0", ":", "0", "0", ".",
                      "0", "0", "0", "0", "0", "0", "0", "0", "1">>

TextIsCanonicalWitness ==
    /\ op = "String"
    /\ cur = Dur(0, 45296, 100000000)
    /\ units = <<"1", "2", ":", "3", "4", ":", "5", "6", ".", "1">>

\* The JSON texts that are one string literal, and the characters the
\* literal stands for: \" is a quote and \\ a backslash.
RECURSIVE RefUnescape(_)
RefUnescape(b) ==
    IF Len(b) = 0 THEN <<>>
    ELSE IF b[1] = "\\" /\ Len(b) >= 2 THEN <<b[2]>> \o RefUnescape(SubSeq(b, 3, Len(b)))
    ELSE <<b[1]>> \o RefUnescape(Tail(b))

RECURSIVE RefBodyWellFormed(_)
\* Printable ASCII characters only, no bare quote, and no escape but those
\* of the quote and the backslash.
RefBodyWellFormed(b) ==
    IF Len(b) = 0 THEN TRUE
    ELSE IF b[1] = "\"" THEN FALSE
    ELSE IF b[1] = "\\"
         THEN Len(b) >= 2 /\ b[2] \in {"\"", "\\"}
                /\ RefBodyWellFormed(SubSeq(b, 3, Len(b)))
    ELSE b[1] \in {Bytes[i] : i \in 33..127} /\ RefBodyWellFormed(Tail(b))

RefIsJSONString(p) ==
    /\ Len(p) >= 2
    /\ p[1] = "\""
    /\ p[Len(p)] = "\""
    /\ RefBodyWellFormed(SubSeq(p, 2, Len(p) - 1))

RefStringContent(p) == RefUnescape(SubSeq(p, 2, Len(p) - 1))

\* A JSON number, array or object.
RefIsNumberArrayObject(p) ==
    p \in { <<"1", "2">>, <<"4", "2">>, <<"[", "]">>, <<"[", "1", "]">>,
            <<"{", "}">>, <<"{", "\"", "a", "\"", ":", "1", "}">>,
            <<"-", "1">>, <<"1", ".", "5">>, <<"1", "e", "5">>,
            <<"[", "1", ",", "2", "]">>, <<"[", " ", "]">>, <<"{", " ", "}">>,
            <<"{", "\"", "a", "\"", ":", "\"", "1", "2", ":", "3", "4", ":", "5", "6", "\"", "}">> }

\* C23: UnmarshalJSON of the token null returns no error and stores the
\* zero value over whatever was stored; a JSON number, array or object
\* fails with ErrInvalidTextData; a JSON string succeeds or fails exactly
\* as UnmarshalText does on the content of the string.
JSONFollowsTextRules ==
    op = "UnmarshalJSON" =>
        LET p == arg[1]
        IN  /\ p = <<"n", "u", "l", "l">> => (err = "nil" /\ cur = Dur(0, 0, 0))
            /\ RefIsNumberArrayObject(p) =>
                (err = "ErrInvalidTextData" /\ cur = recv)
            /\ RefIsJSONString(p) =>
                Ret(cur, err) = TodUnmarshalText(recv, RefStringContent(p))

\* C24: Scan dispatches on the dynamic type of its source only: a byte
\* slice of any length goes to UnmarshalBinary, never to the text decoder,
\* a string goes to UnmarshalText, anything else (nil and integers too)
\* fails with ErrUnsupportedSourceType; the delegate's error comes back
\* unchanged.
ScanDispatchesOnType ==
    op = "Scan" =>
        LET src == arg[1]
        IN  /\ src.type = "[]byte" =>
                /\ Ret(cur, err) = TodUnmarshalBinary(recv, src.val)
                /\ Len(src.val) # 8 => err = "ErrInvalidBinaryDataLen"
            /\ src.type = "string" =>
                Ret(cur, err) = TodUnmarshalText(recv, src.val)
            /\ src.type \notin {"[]byte", "string"} =>
                (err = "ErrUnsupportedSourceType" /\ cur = recv)

ScanDispatchesOnTypeWitness ==
    /\ op = "Scan"
    /\ arg[1] = [type |-> "[]byte", val |-> <<49, 50, 58, 51, 52, 58, 53, 54>>]
    /\ err = "ErrInvalidDuration"
    /\ cur = recv

----------------------------------------------------------------------------
(* NullTimeOfDay: a Value and the flag Valid.  In its runs cur holds the   *)
(* field TimeOfDay and flag the field Valid after the last call, recv and  *)
(* cmp[1] the two fields before it, units what Value() or MarshalJSON      *)
(* returned, and num which call succeeded last: 0 none, 1 one that was     *)
(* given a NULL (a nil source or a JSON text that is null), 2 any other.   *)

Null(t, v) == [tod |-> t, valid |-> v]

\* The result of a NullTimeOfDay method: the fields afterwards and the error.
NullRet(t, v, e) == [tod |-> t, valid |-> v, err |-> e]

NullScanKeepsValid(n, src) ==
    IF src.type = "nil" THEN NullRet(TodZero, n.valid, "nil")
    ELSE LET r == TodScan(n.tod, src)
         IN  IF r.err # "nil" THEN NullRet(n.tod, n.valid, r.err)
             ELSE NullRet(r.v, TRUE, "nil")

\* NullTimeOfDay.Scan
NullScan(n, src) ==
    IF src.type = "nil" THEN NullRet(TodZero, FALSE, "nil")
    ELSE LET r == TodScan(n.tod, src)
         IN  IF r.err # "nil" THEN NullRet(r.v, n.valid, r.err)
             ELSE NullRet(r.v, TRUE, "nil")

\* json.Unmarshal(d, &t) for a Value t: a text that is not one JSON value
\* is a syntax error and t is not touched; otherwise the bytes of the value
\* go to Value.UnmarshalJSON.
JSONUnmarshalValue(t, d) ==
    IF ~JSONValid(d) THEN Ret(t, "SyntaxError")
    ELSE TodUnmarshalJSON(t, JSONToken(d))

NullUnmarshalJSONValidOnError(n, d) ==
    IF d = <<"n", "u", "l", "l">> THEN NullRet(TodZero, FALSE, "nil")
    ELSE LET r == JSONUnmarshalValue(n.tod, d)
         IN  NullRet(r.v, TRUE, r.err)

\* NullTimeOfDay.UnmarshalJSON
NullUnmarshalJSON(n, d) ==
    IF d = <<"n", "u", "l", "l">> THEN NullRet(TodZero, FALSE, "nil")
    ELSE LET r == JSONUnmarshalValue(n.tod, d)
         IN  IF r.err # "nil" THEN NullRet(r.v, n.valid, r.err)
             ELSE NullRet(r.v, TRUE, "nil")

\* NullTimeOfDay.Value: nil, or the String() of the Value
NullValue(n) == IF ~n.valid THEN <<"nil">> ELSE TodString(n.tod)

\* NullTimeOfDay.MarshalJSON
NullMarshalJSON(n) ==
    IF ~n.valid THEN <<"n", "u", "l", "l">> ELSE TodMarshalJSON(n.tod)

\* var n NullTimeOfDay
InitNull ==
    /\ op = "init"
    /\ recv = TodZero
    /\ arg = <<>>
    /\ cur = TodZero
    /\ err = "nil"
    /\ units = <<>>
    /\ num = 0
    /\ flag = FALSE
    /\ cmp = <<FALSE>>
    /\ steps = 0

NullQueries == {"Value", "MarshalJSON"}

\* The JSON text d is the token null, with or without white space around.
RefIsJSONNull(d) ==
    \E i \in 0..Len(d) :
        /\ i + 4 <= Len(d)
        /\ \A k \in 1..i : d[k] \in {" ", "\t", "\n", "\r"}
        /\ SubSeq(d, i + 1, i + 4) = <<"n", "u", "l", "l">>
        /\ \A k \in (i + 5)..Len(d) : d[k] \in {" ", "\t", "\n", "\r"}

\* The state after Scan or UnmarshalJSON returned r; null tells whether the
\* call was given a NULL.
NullReturned(name, a, r, null) ==
    /\ op' = name
    /\ recv' = cur
    /\ cmp' = <<flag>>
    /\ arg' = <<a>>
    /\ cur' = r.tod
    /\ flag' = r.valid
    /\ err' = r.err
    /\ num' = IF r.err # "nil" THEN num ELSE IF null THEN 1 ELSE 2
    /\ units' = <<>>
    /\ UNCHANGED steps

\* err := n.Scan(src)
NullScanCall ==
    /\ op \notin NullQueries
    /\ \E src \in ScanInputs :
        NullReturned("Scan", src, NullScan(Null(cur, flag), src), src.type = "nil")

\* err := n.UnmarshalJSON(d)
NullUnmarshalJSONCall ==
    /\ op \notin NullQueries
    /\ \E d \in JSONInputs :
        NullReturned("UnmarshalJSON", d, NullUnmarshalJSON(Null(cur, flag), d),
                     RefIsJSONNull(d))

\* v, err := n.Value()
NullValueCall ==
    /\ op \notin NullQueries
    /\ op' = "Value"
    /\ units' = NullValue(Null(cur, flag))
    /\ UNCHANGED <<recv, arg, cur, err, num, flag, cmp, steps>>

\* b, err := n.MarshalJSON()
NullMarshalJSONCall ==
    /\ op \notin NullQueries
    /\ op' = "MarshalJSON"
    /\ units' = NullMarshalJSON(Null(cur, flag))
    /\ UNCHANGED <<recv, arg, cur, err, num, flag, cmp, steps>>

NextNull ==
    \/ NullScanCall
    \/ NullUnmarshalJSONCall
    \/ NullValueCall
    \/ NullMarshalJSONCall

SpecNull == InitNull /\ [][NextNull]_vars

----------------------------------------------------------------------------
(* Claims about NullTimeOfDay.                                             *)

\* C25: NullTimeOfDay.Scan of a nil source returns no error and leaves
\* (Zero, Valid = false) whatever was held; a source that decodes stores
\* the decoded Value with Valid = true; a source that fails to decode
\* returns the decoder's error and leaves TimeOfDay and Valid as they were.
NullScanOutcomes ==
    op = "Scan" =>
        LET src == arg[1]
            r   == TodScan(recv, src)
        IN  /\ src.type = "nil" =>
                (err = "nil" /\ cur = Dur(0, 0, 0) /\ flag = FALSE)
            /\ (src.type # "nil" /\ r.err = "nil") =>
                (err = "nil" /\ cur = r.v /\ flag = TRUE)
            /\ (src.type # "nil" /\ r.err # "nil") =>
                (err = r.err /\ cur = recv /\ flag = cmp[1])

NullScanOutcomesWitness ==
    /\ op = "Scan"
    /\ arg[1].type = "nil"
    /\ recv = Dur(0, 86399, 999999999)
    /\ cmp[1] = TRUE
    /\ cur = Dur(0, 0, 0)
    /\ flag = FALSE

\* The most recent successful call was given a NULL, or none has succeeded.
RefLastWasNull == num \in {0, 1}

\* C29: in every state of a NullTimeOfDay reached from its zero value by
\* Scan and UnmarshalJSON calls, successful or failing, Valid = false
\* implies TimeOfDay = Zero and TimeOfDay is within [0, 24h); Valid is
\* false, Value() returns nil and MarshalJSON returns null exactly when the
\* most recent successful call was given a NULL (a nil source, a JSON text
\* that is null) or no call has succeeded yet.
NullInvariant ==
    /\ flag = FALSE => cur = Dur(0, 0, 0)
    /\ RefInDay(cur)
    /\ flag = FALSE <=> RefLastWasNull
    /\ op = "Value" => (units = <<"nil">> <=> RefLastWasNull)
    /\ op = "MarshalJSON" => (units = <<"n", "u", "l", "l">> <=> RefLastWasNull)

----------------------------------------------------------------------------
(* The type TimeOfDay of timeOfDay.go, whose Add steps by whole days.  Its *)
(* constructors are those of Value, line for line.                         *)

\* TimeOfDay.Add.  Each loop moves res by 24h at a time, so it keeps the
\* seconds and nanoseconds of res and only changes its days: the first
\* stops at the first value that is not above 24h, the second at the first
\* that is not below zero.
TimeOfDayAdd(t, d) ==
    LET res  == GoAdd(t, d)
        down == IF DurLess(Hours24, res)
                THEN (IF res.s = 0 /\ res.n = 0 THEN Hours24
                      ELSE Dur(0, res.s, res.n))
                ELSE res
    IN  IF DurLess(down, DurZero) THEN Dur(0, down.s, down.n) ELSE down

\* TimeOfDay.Sub
TimeOfDaySub(t, d) == TimeOfDayAdd(t, GoNeg(d))

\* t = t.Add(d) on a TimeOfDay a constructor returned
TimeOfDayAddCall ==
    /\ op \in {"FromUnits", "FromDuration"} /\ err = "nil"
    /\ \E d \in DurationArgs :
        TodReturned("TimeOfDay.Add", <<d>>, TimeOfDayAdd(cur, d), "nil")

\* t = t.Sub(d) on a TimeOfDay a constructor returned
TimeOfDaySubCall ==
    /\ op \in {"FromUnits", "FromDuration"} /\ err = "nil"
    /\ \E d \in DurationArgs :
        TodReturned("TimeOfDay.Sub", <<d>>, TimeOfDaySub(cur, d), "nil")

NextTimeOfDay ==
    \/ TodFromUnitsCall
    \/ TodFromDurationCall
    \/ TimeOfDayAddCall
    \/ TimeOfDaySubCall

SpecTimeOfDay == InitTod /\ [][NextTimeOfDay]_vars

\* C26: TimeOfDay.Add and TimeOfDay.Sub return, for every valid t and every
\* duration d, a value whose duration r has 0 <= r < 24h, also when t + d
\* is 24h or a whole multiple of 24h.
LoopAddSubWithinDay ==
    op \in {"TimeOfDay.Add", "TimeOfDay.Sub"} => RefInDay(cur)

----------------------------------------------------------------------------
(* The day numbering of the dates (checked under SpecConv).                *)

\* The calendar day after the valid triple t.
RefNextDay(t) ==
    IF t[3] < RefDaysInMonth(t[1], t[2]) THEN <<t[1], t[2], t[3] + 1>>
    ELSE IF t[2] < 12 THEN <<t[1], t[2] + 1, 1>>
    ELSE <<t[1] + 1, 1, 1>>

\* C27: on the valid dates gregorianToJulian preserves order and is one to
\* one onto Min..Max: the first date has number Min, the last Max, the day
\* after every valid date but the last has the number one larger, and for
\* every n in Min..Max ToUnits(n) is a valid triple that FromUnits maps
\* back to n.
DayNumbersAreConsecutive ==
    /\ (op = "FromUnits" /\ RefValidUnits(arg)) =>
          /\ arg = <<1753, 1, 1>> => cur = 2361331
          /\ arg = <<9999, 12, 31>> => cur = 5373484
          /\ arg # <<9999, 12, 31>> =>
                LET next == RefNextDay(arg)
                    r    == FromUnits(next[1], next[2], next[3])
                IN  r.err = "nil" /\ r.v = cur + 1
    /\ (op = "ToUnits" /\ recv \in 2361331..5373484) =>
          /\ RefValidUnits(units)
          /\ FromUnits(units[1], units[2], units[3]) = Ret(recv, "nil")

DayNumbersAreConsecutiveWitness ==
    /\ op = "FromUnits"
    /\ arg = <<1900, 2, 28>>
    /\ err = "nil"
    /\ FromUnits(1900, 3, 1).v = cur + 1
    /\ FromUnits(2000, 2, 29).v + 1 = FromUnits(2000, 3, 1).v

----------------------------------------------------------------------------
(* Sequences of Add and Sub (checked under SpecTod).                       *)

\* x is a signed 64-bit integer.
RefFitsInt64(x) == ~DurLess(DurMaxInt64, x) /\ ~DurLess(x, DurMinInt64)

\* C30: for every valid t and durations a, b whose sums stay within the
\* signed 64-bit range, t.Add(a).Add(b) = t.Add(a + b) = t.Add(b).Add(a),
\* and t.Add(d).Sub(d) = t.
AddsCompose ==
    /\ op = "Add.Add" =>
          LET a == arg[1]
              b == arg[2]
          IN  (/\ RefFitsInt64(DurAdd(a, b))
               /\ RefFitsInt64(DurAdd(recv, a))
               /\ RefFitsInt64(DurAdd(recv, b))
               /\ RefFitsInt64(DurAdd(recv, DurAdd(a, b)))
               /\ RefFitsInt64(DurAdd(TodAdd(recv, a), b))
               /\ RefFitsInt64(DurAdd(TodAdd(recv, b), a)))
              => /\ cur = TodAdd(recv, GoAdd(a, b))
                 /\ cur = TodAdd(TodAdd(recv, b), a)
    /\ op = "Add.Sub" =>
          LET d == arg[1]
          IN  (/\ RefFitsInt64(DurAdd(recv, d))
               /\ RefFitsInt64(DurNeg(d))
               /\ RefFitsInt64(DurSub(TodAdd(recv, d), d)))
              => cur = recv

----------------------------------------------------------------------------
(* Runs that mix Add and Sub with the decoders, each call on the Value the *)
(* one before left, whether it failed or not.                              *)

\* Bound on the calls after the first Value.
MaxReachSteps == 2

\* Zero, Min, Max and what the constructors return without error.
ReachStarts ==
    {TodZero, TodMin, TodMax}
    \cup {TodFromUnits(h, m, s, n).v :
            h \in {0, 12, 23}, m \in {0, 59}, s \in {0, 59}, n \in {0, 999999999}}
    \cup {TodFromDuration(d).v : d \in {e \in DurationArgs : TodIsValidDuration(e)}}

ReachBinary ==
    { TodMarshalBinary(TodMax), TodMarshalBinary(Hours24),
      TodMarshalBinary(DurMinInt64), TodMarshalBinary(Dur(-1, 86399, 999999999)),
      <<1, 2, 3>> }

ReachText ==
    { TodMarshalText(Dur(0, 45296, 500000000)), TodMarshalText(TodMax),
      <<"2", "4", ":", "0", "0", ":", "0", "0">>, <<"1", "2", ":", "3", "4">> }

ReachJSON ==
    { TodMarshalJSON(Dur(0, 86399, 0)), <<"n", "u", "l", "l">>, <<"\"", "2", "4", ":", "0", "0", ":", "0", "0", "\"">>, <<"4", "2">> }

ReachScan ==
    { [type |-> "[]byte", val |-> TodMarshalBinary(Dur(0, 1, 0))],
      [type |-> "[]byte", val |-> TodMarshalBinary(Hours24)],
      [type |-> "string", val |-> TodMarshalText(Dur(0, 3723, 120000000))],
      [type |-> "string", val |-> <<"2", "4", ":", "0", "0", ":", "0", "0">>],
      [type |-> "int64", val |-> <<0>>] }

\* t := timeofday.Zero, timeofday.Max, or the Value of a successful
\* FromUnits or FromDuration
ReachStart ==
    /\ op = "init"
    /\ \E v \in ReachStarts : TodReturned("Start", <<>>, v, "nil")

CanReach == op # "init" /\ steps <= MaxReachSteps

\* t = t.Add(d)
ReachAddCall ==
    /\ CanReach
    /\ \E d \in DurationArgs : TodReturned("Add", <<d>>, TodAdd(cur, d), "nil")

\* t = t.Sub(d)
ReachSubCall ==
    /\ CanReach
    /\ \E d \in DurationArgs : TodReturned("Sub", <<d>>, TodSub(cur, d), "nil")

\* err := t.UnmarshalBinary(b), t.UnmarshalText(b), t.UnmarshalJSON(b) or
\* t.Scan(src)
ReachDecodeCall ==
    /\ CanReach
    /\ \/ \E b \in ReachBinary :
            Decoded("UnmarshalBinary", b, TodUnmarshalBinary(cur, b))
       \/ \E b \in ReachText :
            Decoded("UnmarshalText", b, TodUnmarshalText(cur, b))
       \/ \E b \in ReachJSON :
            Decoded("UnmarshalJSON", b, TodUnmarshalJSON(cur, b))
       \/ \E src \in ReachScan : Decoded("Scan", src, TodScan(cur, src))

NextReach ==
    \/ ReachStart
    \/ ReachAddCall
    \/ ReachSubCall
    \/ ReachDecodeCall

SpecReach == InitTod /\ [][NextReach]_vars

\* C28: every Value reached from Zero, Min, Max or a successful FromUnits or
\* FromDuration by any sequence of Add, Sub, UnmarshalBinary, UnmarshalText,
\* UnmarshalJSON and Scan calls, successful or failing, holds a duration in
\* [0, 24h), also when the 64-bit sum t + d wraps around, the negation of d
\* overflows or the sum is math.MinInt64; IsValid() is true of each.
ReachableValuesWithinDay == RefInDay(cur) /\ flag = (op # "init")

\* Sub(math.MinInt64), whose negation overflows, on the Value left by
\* Zero.Add(math.MinInt64), whose sum is math.MinInt64.
ReachableValuesWithinDayWitness ==
    /\ op = "Sub"
    /\ arg = <<DurMinInt64>>
    /\ recv = Dur(0, 85636, 854775808)
    /\ RefInDay(cur)
    /\ steps = 3

============================================================================
